---- MODULE Spec2Model ----
(***************************************************************************)
(* Verification model of go-tunnel-lite: the broker (internal/server),    *)
(* its session registry, heartbeat monitor, tunnel registrar and port     *)
(* listeners.  One model time unit is 5 seconds.                           *)
(***************************************************************************)
EXTENDS Integers, Sequences, FiniteSets, TLC

\* ------------------------------------------------------------------ bounds
MaxConns   == 2      \* control-port connections dialled by agents
MaxUsers   == 2      \* public connections dialled to tunnel ports
MaxProxies == 2      \* Proxy objects created by registrations
MaxTime    == 6      \* clock horizon
MaxFrames  == 2      \* frames written onto one stream
MaxTasks   == 2      \* tasks sharing one Connect
MaxCalls   == 4      \* Start / Stop calls made on one Client
MaxPush    == 18     \* Push calls made on one MessageQueue

\* ------------------------------------------------- program constants
TypeAuth               == 1      \* 0x01
TypeAuthResp           == 2      \* 0x02
TypeRegisterTunnel     == 16     \* 0x10
TypeRegisterTunnelResp == 17     \* 0x11
TypeNewProxy           == 32     \* 0x20
TypeProxyReady         == 33     \* 0x21
TypePing               == 48     \* 0x30
TypePong               == 49     \* 0x31

AuthTimeout      == 2    \* 10 * time.Second
ReadSlack        == 1    \* 5 * time.Second
HeartbeatTimeout == 4    \* cfg.Server.HeartbeatTimeout, configured as 20s
NoDeadline       == 0    \* time.Time{}: no deadline

HeaderLen  == 5          \* Type (1 byte) + Length (4 bytes)
MaxDataLen == 65536      \* 64 * 1024

\* ------------------------------------------------------------ input sets
Conns       == 1..MaxConns
Users       == 1..MaxUsers
PairUsers   == {1}                    \* the public connection whose peers hang up
TimedConns  == {1}                    \* the connection followed against the clock
OwnerConns  == {1}                    \* the agent that registers the tunnels
StopConns   == {1, 2}                 \* the connections open while Stop runs
DataConns   == Conns \ OwnerConns     \* connections opened as data channels
ClientIDs   == {"c1"}
TunnelNames == {"web"}
Ports       == {8080, 9090}
Token       == "good"                 \* cfg.Server.Token
NoSession   == 0
NoProxy     == 0

\* A frame as the handlers see it: the type byte and the decoded body.
\* valid = FALSE stands for a body that proto.Decode rejects.
Msg(t, v, id, tok, name, port, pid) ==
    [type |-> t, valid |-> v, id |-> id, token |-> tok,
     name |-> name, port |-> port, pid |-> pid]
NoMsg == Msg(0, FALSE, "", "", "", 0, "")
Bare(t) == Msg(t, TRUE, "", "", "", 0, "")

\* what an agent may send as the first frame of a connection
FirstMsgs ==
    { Msg(TypeAuth, TRUE, id, tok, "", 0, "") : id \in ClientIDs, tok \in {"good", "bad"} }
    \cup { Msg(TypeAuth, FALSE, "", "", "", 0, "") }
    \cup { Msg(TypeProxyReady, TRUE, "", "", "", 0, pid) : pid \in TunnelNames }
    \cup { Msg(TypePing, TRUE, id, "good", "", 0, "") : id \in ClientIDs }

\* what an agent may send as the first frame of a data channel
DataMsgs == { Msg(TypeProxyReady, TRUE, "", "", "", 0, pid) : pid \in TunnelNames \cup {"stale"} }

\* what an agent may send on an authenticated control connection
ControlMsgs == { Bare(TypePing), Bare(TypePong), Bare(TypeProxyReady) }
TunnelMsgs ==
    { Msg(TypeRegisterTunnel, TRUE, "", "", n, p, "") : n \in TunnelNames, p \in Ports }
    \cup { Msg(TypeRegisterTunnel, FALSE, "", "", "", 0, "") }
SessionMsgs == ControlMsgs \cup TunnelMsgs

\* frames written by the broker, tagged with the connection they are written on
Frame(c, t, ok, name, port, pid) ==
    [conn |-> c, type |-> t, success |-> ok, name |-> name, port |-> port, pid |-> pid,
     text |-> ""]
NoFrame         == Frame(0, 0, FALSE, "", 0, "")
AuthResp_mut(c, ok) == Frame(c, TypeAuthResp, TRUE, "", 0, "")
AuthResp(c, ok) == Frame(c, TypeAuthResp, ok, "", 0, "")
RegResp(c, ok, text, p) ==
    [Frame(c, TypeRegisterTunnelResp, ok, "", p, "") EXCEPT !.text = text]
Plain(c, t)     == Frame(c, t, TRUE, "", 0, "")

\* A byte string is kept as a sequence of runs: [n |-> k, b |-> x] stands for
\* k bytes of value x.  Adjacent runs hold different bytes and no run is
\* empty, so equal byte strings are equal sequences.
Run(k, x) == [n |-> k, b |-> x]

\* bodies a message may carry: empty, one byte, a body that reads like the
\* header of an empty frame, bodies at and around the size limit
Bodies ==
    { <<>>, <<Run(1, 0)>>, <<Run(1, 1)>>, <<Run(HeaderLen, 0)>>,
      <<Run(MaxDataLen - 1, 0)>>, <<Run(MaxDataLen, 1)>>, <<Run(MaxDataLen + 1, 0)>>,
      <<Run(1, 1), Run(MaxDataLen - 1, 0)>>, <<Run(MaxDataLen - 1, 1), Run(1, 0)>> }

\* proto.Message: the kind byte and the body
Messages == [Type : {TypeAuth, 255}, Data : Bodies]

\* a frame header with the length bytes b1..b4
RawHeader(t, b1, b2, b3, b4) == <<Run(1, t), Run(1, b1), Run(1, b2), Run(1, b3), Run(1, b4)>>

\* byte strings a peer may put on the stream: headers declaring 65537,
\* 2^24, 2^31 and 2^32-1 bytes, alone or followed by some bytes; a header
\* declaring 65536 bytes with the body cut short; a cut header; complete
\* frames with an empty and with a two-byte body
RawStreams ==
    { RawHeader(TypePing, 0, 1, 0, 1), RawHeader(TypePing, 1, 0, 0, 0),
      RawHeader(TypePing, 128, 0, 0, 0), <<Run(1, TypePing), Run(4, 255)>>,
      <<Run(1, TypePing), Run(4, 255), Run(7, 9)>>,
      RawHeader(TypePing, 0, 1, 0, 1) \o <<Run(3, 9)>>,
      RawHeader(TypePing, 0, 1, 0, 0) \o <<Run(MaxDataLen - 1, 9)>>,
      <<Run(1, TypePing), Run(2, 0)>>,
      <<Run(1, TypePing), Run(4, 0)>>,
      <<Run(1, TypePing), Run(3, 0), Run(1, 2), Run(2, 9)>>,
      <<Run(1, TypePing), Run(3, 0), Run(1, 2), Run(1, 9)>> }

NoCall == [op |-> "", err |-> "", n |-> 0]

\* tasks that call WriteMessage, Connect.Close or ClientSession.Close on one
\* Connect, and the messages they write
Tasks == 1..MaxTasks
ConnMsgs ==
    { [Type |-> TypePing, Data |-> <<>>], [Type |-> TypeAuth, Data |-> <<Run(2, 1)>>],
      [Type |-> 255, Data |-> <<Run(HeaderLen, 0)>>],
      [Type |-> TypePing, Data |-> <<Run(MaxDataLen + 1, 0)>>] }

\* a Connect over an open transport, the ClientSession that owns it, and
\* the position of every task inside the call it is making.
\*   writeMu, readMu, closedMu, mu : the mutex is held
\*   closed    : Connect.closed          transport : calls of net.Conn.Close
\*   stopCh    : close(cs.stopCh) calls  returned  : a Connect.Close has returned
\*   sReturned : a ClientSession.Close has returned
\*   order     : the tasks in the order their WriteMessage calls returned nil
\*   overlap   : a ReadMessage returned while a task held writeMu
\*   sessionsMu, proxiesMu, pmu : Server.sessionsMu, Server.proxiesMu, Proxy.mu
\*   locks     : per task, the lock operations left in the code path it runs
NoCx == [writeMu |-> FALSE, readMu |-> FALSE, closedMu |-> FALSE, mu |-> FALSE,
         sessionsMu |-> FALSE, proxiesMu |-> FALSE, pmu |-> FALSE,
         locks |-> [t \in Tasks |-> <<>>],
         closed |-> FALSE, transport |-> 0, stopCh |-> 0,
         returned |-> FALSE, sReturned |-> FALSE,
         pc |-> [t \in Tasks |-> "idle"], msg |-> [t \in Tasks |-> [Type |-> 0, Data |-> <<>>]],
         ret |-> [t \in Tasks |-> "none"], inSession |-> [t \in Tasks |-> FALSE],
         rpc |-> "idle", order |-> <<>>, overlap |-> FALSE]

\* a Client: Client.running, close(c.stopCh) calls, the control connection,
\* the connections dialled so far, the position of the caller inside Start
\* or Stop, BatchProcessor.Stop calls, whether
\* messageLoop and heartbeatLoop run, how often the tunnel cache was built,
\* whether a call panicked, the number of calls made and the last call with
\* the error it returned
NoClient == [running |-> FALSE, stopCh |-> 0, conn |-> "nil", conns |-> 0,
             procStops |-> 0, messageLoop |-> FALSE, heartbeatLoop |-> FALSE,
             caches |-> 0, panicked |-> FALSE, pc |-> "idle",
             calls |-> 0, last |-> "", err |-> FALSE]

\* NewBatchProcessor(2, 10, client.handleBatchMessages)
WorkerCount == 2
BatchSize == 10
Workers == 1..WorkerCount
\* NewMessageQueue: capacity := batchSize * 4, at least 16
MinCapacity == 16
BatchSizes == {1, 3, BatchSize}

\* a BatchProcessor before NewBatchProcessor: the ring MessageQueue
\* (messages, head, tail, size, capacity, closed, batchSize), the list
\* MessageQueue it replaced (queue, closed, batchSize), the value the last
\* PopBatch returned from each, the number of Push calls, stopCh, the
\* position and batch of each worker, the messages handleSingleMessage was
\* started on, the position of the caller of Stop
NoResult == [nil |-> TRUE, batch |-> <<>>]
NoProcessor == [queue |-> [messages |-> <<>>, head |-> 0, tail |-> 0, size |-> 0,
                           capacity |-> 0, closed |-> FALSE, batchSize |-> 0],
                list |-> [queue |-> <<>>, closed |-> FALSE, batchSize |-> 0],
                ret |-> NoResult, lret |-> NoResult, pushed |-> 0,
                stopCh |-> FALSE, stop |-> "idle",
                worker |-> [w \in Workers |-> [pc |-> "none", batch |-> <<>>]],
                handled |-> <<>>]

\* a time.Duration: an int64 count of nanoseconds, kept as its eight bytes in
\* two's complement, lowest first
Int64(n) == [i \in 1..8 |-> IF i = 1 THEN n % 256
                            ELSE IF i = 2 THEN (n \div 256) % 256
                            ELSE IF i = 3 THEN (n \div 65536) % 256
                            ELSE IF i = 4 THEN (n \div 16777216) % 256
                            ELSE 0]
\* column k of the schoolbook product of a and b, with the carry of the
\* columns below it
RECURSIVE Column(_, _, _)
Column(a, b, k) ==
    LET Partial[i \in 0..k] ==
            IF i = 0 THEN 0
            ELSE Partial[i - 1]
                 + (IF i <= 8 /\ k + 1 - i <= 8 THEN a[i] * b[k + 1 - i] ELSE 0)
    IN  Partial[k] + (IF k = 1 THEN 0 ELSE Column(a, b, k - 1) \div 256)
\* a * b in int64 arithmetic: the low 64 bits of the product
Mul64(a, b) == [k \in 1..8 |-> Column(a, b, k) % 256]
\* the product of the non-negative a and b does not fit into an int64
Overflows(a, b) ==
    \/ Column(a, b, 8) % 256 >= 128
    \/ \E k \in 9..16 : Column(a, b, k) % 256 # 0
Negative(a) == a[8] >= 128
Positive(a) == ~Negative(a) /\ a # Int64(0)
\* -a
Neg64(a) == Mul64(a, [i \in 1..8 |-> 255])

\* time.Nanosecond, time.Millisecond, time.Second
Nanosecond == Int64(1)
Millisecond == Int64(1000000)
Second == Int64(1000000000)
\* 30 * time.Second
DefaultInterval == Mul64(Int64(30), Second)

\* the values heartbeat_interval is configured with: a count of seconds,
\* milliseconds or nanoseconds, nothing, or a negative duration
Counts == 0..10 \cup {30, 60, 90}
Intervals ==
    { Mul64(Int64(n), unit) : n \in Counts, unit \in {Nanosecond, Millisecond, Second} }
    \cup { Neg64(Second) }

\* the agent's heartbeat before its configuration is loaded: the position,
\* cfg.Client.HeartbeatInterval as configured and as Validate left it, the
\* period heartbeatLoop gave its ticker and whether computing it overflowed
NoHeartbeat == [pc |-> "new", configured |-> Int64(0), interval |-> Int64(0),
                ticker |-> Int64(0), overflow |-> FALSE]

\* the PoolConfig values a ConnectionPool is created with
PoolConfigs == { [MaxIdle |-> i, MaxActive |-> a] : i \in 1..2, a \in 1..2 }

\* a ConnectionPool before NewConnectionPool: its config, len(p.conns),
\* numActive, closed, and for each task using the pool its position inside
\* Get and the number of connections it holds
NoPool == [config |-> [MaxIdle |-> 0, MaxActive |-> 0], conns |-> 0,
           numActive |-> 0, closed |-> FALSE,
           pc |-> [t \in Tasks |-> "idle"], held |-> [t \in Tasks |-> 0]]

\* the agent's tunnelCache, and what a NewProxy notification may name
TunnelCache == TunnelNames
NoticeNames == TunnelNames \cup {"ghost"}
ProxyIDs    == {"p1", "p2"}

\* a handleNewProxy task: its position, the request, the socket to the
\* private target, the socket to the broker, the proxyID written in the
\* ProxyReady, the steps completed so far, and the two copies of proxyData
NoTask == [pc |-> "idle", tunnel |-> "", proxyID |-> "", local |-> "none",
           server |-> "none", ready |-> "", steps |-> <<>>,
           l2r |-> FALSE, r2l |-> FALSE]

VARIABLES
    now,          \* wall clock
    portSet,      \* Server.portSet: the whitelist
    listener,     \* Server.listener: "nil", "open", "closed"
    acceptLoop,   \* Server.acceptLoop task: "none", "running", "done"
    stopCh,       \* Server.stopCh is closed
    stopPc,       \* position of the caller inside Server.Stop
    wg,           \* Server.wg counter
    sessions,     \* Server.sessions: clientID -> session (named by its connection)
    proxies,      \* Server.proxies: tunnel name -> Proxy
    pc,           \* position of handleNewConnection(c)
    msg,          \* handleNewConnection: the first message read
    oldSession,   \* handleNewConnection: the session evicted by c
    curMsg,       \* handleSession: the message being dispatched
    proxy,        \* handleRegisterTunnel: the Proxy it created
    lastActive,   \* ClientSession.lastActive
    sessStop,     \* ClientSession.stopCh is closed
    connClosed,   \* Connect.closed of the control connection
    deadline,     \* deadline armed on the control connection (0 = none)
    hb,           \* heartbeatLoop(session) task: "none", "running", "done"
    silent,       \* the agent behind the connection has stopped sending
    out,          \* the frame written on a control connection by the last step
    proxyObjs,    \* the Proxy objects created so far
    users,        \* public connections and their handleConnection task
    wire,         \* the byte stream between a Message.WriteTo and a Message.ReadFrom
    sent,         \* the messages WriteTo has encoded onto the stream
    rcvd,         \* the messages ReadFrom has decoded from the stream
    call,         \* the last WriteTo / ReadFrom call: what it returned
    eof,          \* the writing end of the stream was closed
    cx,           \* a Connect, the ClientSession holding it, and the tasks using them
    agent,        \* Client.handleNewProxy tasks, one per notification
    client,       \* the Client object and the calls made on it
    processor,    \* a BatchProcessor, its MessageQueue and its workers
    heartbeat,    \* Client.heartbeatLoop: the configured interval and its ticker
    pool          \* a ConnectionPool

srvVars  == <<portSet, listener, acceptLoop, stopCh, stopPc, wg, sessions, proxies>>
connVars == <<pc, msg, oldSession, curMsg, proxy, lastActive, sessStop, connClosed,
              deadline, hb, silent>>
codecVars == <<wire, sent, rcvd, call, eof>>
connectVars == <<cx>>
utilVars == <<processor, heartbeat, pool>>
agentVars == <<agent, client, utilVars>>
brokerVars == <<now, srvVars, connVars, out, proxyObjs, users>>
vars == <<brokerVars, codecVars, connectVars, agentVars>>

\* ---------------------------------------------------------------- helpers
\* ClientSession.Close applied to the sessions in S: a no-op for a session
\* whose stopCh is already closed, otherwise closes stopCh and the connection.
CloseStop(S)  == [c \in Conns |-> sessStop[c] \/ c \in S]
CloseConn(S)  == [c \in Conns |-> connClosed[c] \/ (c \in S /\ ~sessStop[c])]

\* Connect.Close on connection c
ConnClose_mut(c) == connClosed
ConnClose(c) == [connClosed EXCEPT ![c] = TRUE]

\* ClientSession.IsClosed
IsClosed(c) == sessStop[c]

\* the first-message type test of handleNewConnection
IsAuthType_mut(t) == TRUE
IsAuthType(t) == t = TypeAuth

\* the instance comparison of the cleanup at the end of handleNewConnection
SameInstance_mut(entry, session) == TRUE
SameInstance(entry, session) == entry = session

\* Server.isPortAllowed
isPortAllowed_mut(port) == TRUE
isPortAllowed(port) == IF portSet = {} THEN TRUE ELSE port \in portSet

\* a write on the control connection fails once the connection is closed or
\* the deadline armed through conn.SetDeadline has passed
WriteFails(c) == connClosed[c] \/ (deadline[c] # NoDeadline /\ now > deadline[c])

\* what a WriteMessage of frame f on c puts on the wire
Written(c, f) == IF WriteFails(c) THEN NoFrame ELSE f

\* the clientID handler c authenticated with (authReq.ClientID)
ClientID(c) == msg[c].id

\* a Proxy's listener is bound from Proxy.Start until Proxy.Stop closes it
Bound(p) == ~p.closed
BoundPorts_mut == {}
BoundPorts == { proxyObjs[i].remotePort : i \in { j \in 1..Len(proxyObjs) : Bound(proxyObjs[j]) } }

\* the far end of a ProxyConnection: the connection handleConnection dialled
\* to 127.0.0.1:8080, or data channel d accepted on the control port
NoData         == [dialed |-> FALSE, conn |-> 0]
Dialed         == [dialed |-> TRUE, conn |-> 0]
DataChannel(d) == [dialed |-> FALSE, conn |-> d]

\* a public connection; l2r and r2l tell whether the io.Copy of Forward in
\* that direction is still running
NoUser == [state |-> "idle", proxy |-> NoProxy, proxyID |-> "", dataConn |-> NoData,
           l2r |-> FALSE, r2l |-> FALSE]

TypeOK ==
    /\ now \in 0..MaxTime
    /\ wg \in Nat
    /\ sessions \in [ClientIDs -> Conns \cup {NoSession}]
    /\ proxies \in [TunnelNames -> 0..MaxProxies]
    /\ Len(proxyObjs) <= MaxProxies

Init ==
    /\ now = 0
    /\ portSet \in {{}, {8080}}
    /\ listener = "nil"
    /\ acceptLoop = "none"
    /\ stopCh = FALSE
    /\ stopPc = "idle"
    /\ wg = 0
    /\ sessions = [id \in ClientIDs |-> NoSession]
    /\ proxies = [n \in TunnelNames |-> NoProxy]
    /\ pc = [c \in Conns |-> "idle"]
    /\ msg = [c \in Conns |-> NoMsg]
    /\ oldSession = [c \in Conns |-> NoSession]
    /\ curMsg = [c \in Conns |-> NoMsg]
    /\ proxy = [c \in Conns |-> NoProxy]
    /\ lastActive = [c \in Conns |-> 0]
    /\ sessStop = [c \in Conns |-> FALSE]
    /\ connClosed = [c \in Conns |-> FALSE]
    /\ deadline = [c \in Conns |-> NoDeadline]
    /\ hb = [c \in Conns |-> "none"]
    /\ silent = [c \in Conns |-> FALSE]
    /\ out = NoFrame
    /\ proxyObjs = <<>>
    /\ users = [u \in Users |-> NoUser]
    /\ wire = <<>>
    /\ sent = <<>>
    /\ rcvd = <<>>
    /\ call = NoCall
    /\ eof = FALSE
    /\ cx = NoCx
    /\ client = NoClient
    /\ processor = NoProcessor
    /\ heartbeat = NoHeartbeat
    /\ pool = NoPool
    /\ agent = [n \in Users |-> NoTask]

\* ------------------------------------------------------------------ clock
Tick ==
    /\ now < MaxTime
    /\ now' = now + 1
    /\ out' = NoFrame
    /\ UNCHANGED <<codecVars, connectVars, agentVars, srvVars, connVars, proxyObjs, users>>

\* ----------------------------------------------------------- Server.Start
Start ==
    /\ listener = "nil"
    /\ stopPc = "idle"
    /\ listener' = "open"
    /\ wg' = wg + 1
    /\ acceptLoop' = "running"
    /\ out' = NoFrame
    /\ UNCHANGED <<codecVars, connectVars, agentVars, now, portSet, stopCh, stopPc, sessions, proxies, connVars, proxyObjs, users>>

\* ------------------------------------------------------ Server.acceptLoop
\* Accept returns connection c; the handler is started and arms the 10 s
\* deadline before its first read.
Accept(c) ==
    /\ acceptLoop = "running"
    /\ listener = "open"
    /\ pc[c] = "idle"
    /\ wg' = wg + 1
    /\ pc' = [pc EXCEPT ![c] = "auth"]
    /\ deadline' = [deadline EXCEPT ![c] = now + AuthTimeout]
    /\ out' = NoFrame
    /\ UNCHANGED <<codecVars, connectVars, agentVars, now, portSet, listener, acceptLoop, stopCh, stopPc, sessions, proxies,
                   msg, oldSession, curMsg, proxy, lastActive, sessStop, connClosed,
                   hb, proxyObjs, users, silent>>

\* Accept fails because the listener was closed; stopCh is closed, so the
\* loop returns.  (With stopCh open the loop logs and calls Accept again.)
AcceptLoopExit ==
    /\ acceptLoop = "running"
    /\ listener = "closed"
    /\ stopCh
    /\ acceptLoop' = "done"
    /\ wg' = wg - 1
    /\ out' = NoFrame
    /\ UNCHANGED <<codecVars, connectVars, agentVars, now, portSet, listener, stopCh, stopPc, sessions, proxies, connVars,
                   proxyObjs, users>>

\* ----------------------------------------------- Server.handleNewConnection
\* the first ReadMessage fails and the connection is closed without a reply
AuthFail(c) ==
    /\ connClosed' = ConnClose(c)
    /\ pc' = [pc EXCEPT ![c] = "done"]
    /\ wg' = wg - 1
    /\ out' = NoFrame
    /\ UNCHANGED <<codecVars, connectVars, agentVars, now, portSet, listener, acceptLoop, stopCh, stopPc, sessions, proxies,
                   msg, oldSession, curMsg, proxy, lastActive, sessStop, deadline,
                   hb, proxyObjs, users, silent>>

\* ... because the agent closed or reset the connection
AuthReadErr(c) ==
    /\ pc[c] = "auth"
    /\ AuthFail(c)

\* ... because the 10 s deadline passed
AuthReadTimeout(c) ==
    /\ pc[c] = "auth"
    /\ now > deadline[c]
    /\ AuthFail(c)

\* the first message m arrives in time and is checked
AuthRead(c, m) ==
    /\ pc[c] = "auth"
    /\ now <= deadline[c]
    /\ msg' = [msg EXCEPT ![c] = m]
    /\ IF ~IsAuthType(m.type)
         THEN /\ connClosed' = ConnClose(c)
              /\ pc' = [pc EXCEPT ![c] = "done"]
              /\ wg' = wg - 1
              /\ out' = NoFrame
         ELSE IF ~m.valid \/ m.token # Token
         THEN /\ out' = Written(c, AuthResp(c, FALSE))
              /\ connClosed' = ConnClose(c)
              /\ pc' = [pc EXCEPT ![c] = "done"]
              /\ wg' = wg - 1
         ELSE /\ pc' = [pc EXCEPT ![c] = "evict"]
              /\ out' = NoFrame
              /\ UNCHANGED <<connClosed, wg, silent>>
    /\ UNCHANGED <<codecVars, connectVars, agentVars, now, portSet, listener, acceptLoop, stopCh, stopPc, sessions, proxies,
                   oldSession, curMsg, proxy, lastActive, sessStop, deadline,
                   hb, proxyObjs, users, silent>>

\* first critical section: close and delete an existing session of the same
\* clientID
Evict(c) ==
    /\ pc[c] = "evict"
    /\ LET old == sessions[ClientID(c)] IN
       IF old # NoSession
         THEN /\ sessStop' = CloseStop({old})
              /\ connClosed' = CloseConn({old})
              /\ sessions' = [sessions EXCEPT ![ClientID(c)] = NoSession]
              /\ oldSession' = [oldSession EXCEPT ![c] = old]
         ELSE UNCHANGED <<sessStop, connClosed, sessions, oldSession, silent>>
    /\ pc' = [pc EXCEPT ![c] = "register"]
    /\ out' = NoFrame
    /\ UNCHANGED <<codecVars, connectVars, agentVars, now, portSet, listener, acceptLoop, stopCh, stopPc, wg, proxies,
                   msg, curMsg, proxy, lastActive, deadline, hb, proxyObjs, users, silent>>

\* connect.SetDeadline(time.Time{})
ClearDeadline_mut(c) == deadline
ClearDeadline(c) == [deadline EXCEPT ![c] = NoDeadline]

\* clear the deadline, answer, create the session, second critical section:
\* insert it; handleSession then starts the heartbeat task
Register(c) ==
    /\ pc[c] = "register"
    /\ deadline' = ClearDeadline(c)
    /\ out' = Written(c, AuthResp(c, TRUE))
    /\ lastActive' = [lastActive EXCEPT ![c] = now]
    /\ sessions' = [sessions EXCEPT ![ClientID(c)] = c]
    /\ oldSession' = [oldSession EXCEPT ![c] = NoSession]
    /\ hb' = [hb EXCEPT ![c] = "running"]
    /\ pc' = [pc EXCEPT ![c] = "select"]
    /\ UNCHANGED <<codecVars, connectVars, agentVars, now, portSet, listener, acceptLoop, stopCh, stopPc, wg, proxies,
                   msg, curMsg, proxy, sessStop, connClosed, proxyObjs, users, silent>>

\* ---------------------------------------------------- Server.handleSession
\* time.Now().Add(s.cfg.Server.HeartbeatTimeout + 5*time.Second)
ReadDeadline_mut == now + ReadSlack
ReadDeadline == now + HeartbeatTimeout + ReadSlack

\* session.lastActive = time.Now()
Touch_mut(c) == lastActive
Touch(c) == [lastActive EXCEPT ![c] = now]

\* top of the message loop: leave on either stop channel, otherwise arm the
\* read deadline and block in ReadMessage
LoopSelect(c) ==
    /\ pc[c] = "select"
    /\ IF stopCh \/ sessStop[c]
         THEN /\ pc' = [pc EXCEPT ![c] = "cleanup"]
              /\ UNCHANGED deadline
         ELSE /\ pc' = [pc EXCEPT ![c] = "read"]
              /\ deadline' = [deadline EXCEPT ![c] = ReadDeadline]
    /\ out' = NoFrame
    /\ UNCHANGED <<codecVars, connectVars, agentVars, now, srvVars, msg, oldSession, curMsg, proxy, lastActive, sessStop,
                   connClosed, hb, proxyObjs, users, silent>>

\* ReadMessage fails: if the session is already closed just return,
\* otherwise close it and return
ReadFail(c) ==
    /\ sessStop' = CloseStop({c})
    /\ connClosed' = CloseConn({c})
    /\ pc' = [pc EXCEPT ![c] = "cleanup"]
    /\ out' = NoFrame
    /\ UNCHANGED <<codecVars, connectVars, agentVars, now, srvVars, msg, oldSession, curMsg, proxy, lastActive, deadline,
                   hb, proxyObjs, users, silent>>

\* ... because the connection was closed, locally or by the agent
SessionReadErr(c) ==
    /\ pc[c] = "read"
    /\ ReadFail(c)

\* ... because the read deadline passed
SessionReadTimeout(c) ==
    /\ pc[c] = "read"
    /\ now > deadline[c]
    /\ ReadFail(c)

\* ReadMessage returns m; lastActive is updated before the dispatch
SessionRead(c, m) ==
    /\ pc[c] = "read"
    /\ ~silent[c]
    /\ ~connClosed[c] /\ now <= deadline[c]
    /\ curMsg' = [curMsg EXCEPT ![c] = m]
    /\ lastActive' = Touch(c)
    /\ pc' = [pc EXCEPT ![c] = "dispatch"]
    /\ out' = NoFrame
    /\ UNCHANGED <<codecVars, connectVars, agentVars, now, srvVars, msg, oldSession, proxy, sessStop, connClosed, deadline,
                   hb, proxyObjs, users, silent>>

\* NewProxy followed by Proxy.Start: bind the port, start the accept loop
NewProxy(name, port) ==
    [name |-> name, remotePort |-> port, closed |-> FALSE, acceptLoop |-> "running"]

\* Server.handleMessage, and handleRegisterTunnel up to proxy.Start
Dispatch(c) ==
    /\ pc[c] = "dispatch"
    /\ LET m == curMsg[c] IN
       CASE m.type = TypePing ->
               /\ out' = Written(c, Plain(c, TypePong))
               /\ pc' = [pc EXCEPT ![c] = "select"]
               /\ curMsg' = [curMsg EXCEPT ![c] = NoMsg]
               /\ UNCHANGED <<proxyObjs, proxy, silent>>
         [] m.type = TypeRegisterTunnel ->
               IF ~m.valid \/ ~isPortAllowed(m.port) \/ m.port \in BoundPorts
                 THEN /\ out' = Written(c, RegResp(c, FALSE,
                                     IF ~m.valid THEN "bad request"
                                     ELSE IF ~isPortAllowed(m.port) THEN "port not allowed"
                                     ELSE "start failed", 0))
                      /\ pc' = [pc EXCEPT ![c] = "select"]
                      /\ curMsg' = [curMsg EXCEPT ![c] = NoMsg]
                      /\ UNCHANGED <<proxyObjs, proxy, silent>>
                 ELSE /\ Len(proxyObjs) < MaxProxies
                      /\ proxyObjs' = Append(proxyObjs, NewProxy(m.name, m.port))
                      /\ proxy' = [proxy EXCEPT ![c] = Len(proxyObjs) + 1]
                      /\ pc' = [pc EXCEPT ![c] = "regInsert"]
                      /\ out' = NoFrame
                      /\ UNCHANGED curMsg
         [] OTHER ->
               /\ pc' = [pc EXCEPT ![c] = "select"]
               /\ curMsg' = [curMsg EXCEPT ![c] = NoMsg]
               /\ out' = NoFrame
               /\ UNCHANGED <<proxyObjs, proxy, silent>>
    /\ UNCHANGED <<codecVars, connectVars, agentVars, now, srvVars, msg, oldSession, lastActive, sessStop, connClosed,
                   deadline, hb, users, silent>>

\* handleRegisterTunnel: record the proxy under its tunnel name and answer
RegInsert(c) ==
    /\ pc[c] = "regInsert"
    /\ proxies' = [proxies EXCEPT ![curMsg[c].name] = proxy[c]]
    /\ out' = Written(c, RegResp(c, TRUE, "registered", curMsg[c].port))
    /\ curMsg' = [curMsg EXCEPT ![c] = NoMsg]
    /\ proxy' = [proxy EXCEPT ![c] = NoProxy]
    /\ pc' = [pc EXCEPT ![c] = "select"]
    /\ UNCHANGED <<codecVars, connectVars, agentVars, now, portSet, listener, acceptLoop, stopCh, stopPc, wg, sessions,
                   msg, oldSession, lastActive, sessStop, connClosed, deadline,
                   hb, proxyObjs, users, silent>>

\* end of handleNewConnection: remove the registry entry if it is this
\* session, then wg.Done
Cleanup(c) ==
    /\ pc[c] = "cleanup"
    /\ sessions' = IF SameInstance(sessions[ClientID(c)], c)
                     THEN [sessions EXCEPT ![ClientID(c)] = NoSession]
                     ELSE sessions
    /\ pc' = [pc EXCEPT ![c] = "done"]
    /\ wg' = wg - 1
    /\ out' = NoFrame
    /\ UNCHANGED <<codecVars, connectVars, agentVars, now, portSet, listener, acceptLoop, stopCh, stopPc, proxies,
                   msg, oldSession, curMsg, proxy, lastActive, sessStop, connClosed,
                   deadline, hb, proxyObjs, users, silent>>

\* ---------------------------------------------------- Server.heartbeatLoop
\* the select takes one of the stop channels
HbStop(c) ==
    /\ hb[c] = "running"
    /\ stopCh \/ sessStop[c]
    /\ hb' = [hb EXCEPT ![c] = "done"]
    /\ out' = NoFrame
    /\ UNCHANGED <<codecVars, connectVars, agentVars, now, srvVars, pc, msg, oldSession, curMsg, proxy, lastActive, sessStop,
                   connClosed, deadline, proxyObjs, users, silent>>

\* the timeout test of heartbeatLoop
HbExpired_mut(c) == lastActive[c] - now > HeartbeatTimeout
HbExpired(c) == now - lastActive[c] > HeartbeatTimeout

\* the select takes the ticker: close the session when it has been silent
\* for longer than the timeout or when the Ping cannot be written (err: the
\* agent is gone and the write is refused)
HbTick(c, err) ==
    /\ hb[c] = "running"
    /\ IF HbExpired(c) \/ WriteFails(c) \/ err
         THEN /\ sessStop' = CloseStop({c})
              /\ connClosed' = CloseConn({c})
              /\ hb' = [hb EXCEPT ![c] = "done"]
              /\ out' = NoFrame
         ELSE /\ out' = Plain(c, TypePing)
              /\ UNCHANGED <<sessStop, connClosed, hb, silent>>
    /\ UNCHANGED <<codecVars, connectVars, agentVars, now, srvVars, pc, msg, oldSession, curMsg, proxy, lastActive,
                   deadline, proxyObjs, users, silent>>

\* ------------------------------------------------------------- the agent
\* the agent of session c stops sending; its socket stays open
AgentSilent(c) ==
    /\ pc[c] \in {"select", "read", "dispatch"}
    /\ ~silent[c]
    /\ silent' = [silent EXCEPT ![c] = TRUE]
    /\ out' = NoFrame
    /\ UNCHANGED <<codecVars, connectVars, agentVars, now, srvVars, pc, msg, oldSession, curMsg, proxy, lastActive, sessStop,
                   connClosed, deadline, hb, proxyObjs, users>>

\* ------------------------------------------------------------ Server.Stop
StopSignal ==
    /\ stopPc = "idle"
    /\ stopCh' = TRUE
    /\ stopPc' = "listener"
    /\ out' = NoFrame
    /\ UNCHANGED <<codecVars, connectVars, agentVars, now, portSet, listener, acceptLoop, wg, sessions, proxies, connVars,
                   proxyObjs, users>>

\* if s.listener != nil { s.listener.Close() }
ListenerClose_mut(l) == l
ListenerClose(l) == IF l = "open" THEN "closed" ELSE l

StopListener ==
    /\ stopPc = "listener"
    /\ listener' = ListenerClose(listener)
    /\ stopPc' = "sessions"
    /\ out' = NoFrame
    /\ UNCHANGED <<codecVars, connectVars, agentVars, now, portSet, acceptLoop, stopCh, wg, sessions, proxies, connVars,
                   proxyObjs, users>>

\* session.Close() on every session found in the registry
StopSessions ==
    /\ stopPc = "sessions"
    /\ LET S == { sessions[id] : id \in ClientIDs } \ {NoSession} IN
         /\ sessStop' = CloseStop(S)
         /\ connClosed' = CloseConn(S)
    /\ stopPc' = "proxies"
    /\ out' = NoFrame
    /\ UNCHANGED <<codecVars, connectVars, agentVars, now, portSet, listener, acceptLoop, stopCh, wg, sessions, proxies,
                   pc, msg, oldSession, curMsg, proxy, lastActive, deadline,
                   hb, proxyObjs, users, silent>>

\* Proxy.Stop: idempotent; closes stopCh and the listener
ProxyStop(p) == IF p.closed THEN p ELSE [p EXCEPT !.closed = TRUE]

\* proxy.Stop() on every proxy found in the proxy table
StopProxies ==
    /\ stopPc = "proxies"
    /\ LET P == { proxies[n] : n \in TunnelNames } \ {NoProxy} IN
         proxyObjs' = [i \in 1..Len(proxyObjs) |->
                          IF i \in P THEN ProxyStop(proxyObjs[i]) ELSE proxyObjs[i]]
    /\ stopPc' = "wait"
    /\ out' = NoFrame
    /\ UNCHANGED <<codecVars, connectVars, agentVars, now, portSet, listener, acceptLoop, stopCh, wg, sessions, proxies,
                   connVars, users>>

\* wg.Wait returns
StopWait ==
    /\ stopPc = "wait"
    /\ wg = 0
    /\ stopPc' = "returned"
    /\ out' = NoFrame
    /\ UNCHANGED <<codecVars, connectVars, agentVars, now, portSet, listener, acceptLoop, stopCh, wg, sessions, proxies,
                   connVars, proxyObjs, users>>

\* ------------------------------------------------------- Proxy.acceptLoop
\* the loop sees stopCh closed, or Accept fails with closed set
ProxyAcceptExit(i) ==
    /\ i \in 1..Len(proxyObjs)
    /\ proxyObjs[i].acceptLoop = "running"
    /\ proxyObjs[i].closed
    /\ proxyObjs' = [proxyObjs EXCEPT ![i].acceptLoop = "done"]
    /\ out' = NoFrame
    /\ UNCHANGED <<codecVars, connectVars, agentVars, now, srvVars, connVars, users>>

\* --------------------------------------------------- Proxy.handleConnection
\* the listener of proxy i accepts public connection u and its handler
\* dials the data connection; on success it builds the ProxyConnection,
\* whose proxyID is the proxy's name, and starts Forward; on failure it
\* closes userConn
HandleConnection(i, u, ok) ==
    /\ i \in 1..Len(proxyObjs)
    /\ proxyObjs[i].acceptLoop = "running"
    /\ Bound(proxyObjs[i])
    /\ users[u].state = "idle"
    /\ users' = IF ok
                  THEN [users EXCEPT ![u] = [state |-> "forwarding", proxy |-> i,
                                             proxyID |-> proxyObjs[i].name,
                                             dataConn |-> Dialed,
                                             l2r |-> TRUE, r2l |-> TRUE]]
                  ELSE [users EXCEPT ![u].state = "done"]
    /\ out' = NoFrame
    /\ UNCHANGED <<codecVars, connectVars, agentVars, now, srvVars, connVars, proxyObjs>>

\* ------------------------------------------------ ProxyConnection.Forward
\* the io.Copy reading from one side returns: that side reached end-of-stream
\* or failed ("local": the public connection, "remote": the data connection)
CopyEnd(u, from) ==
    /\ users[u].state = "forwarding"
    /\ \/ from = "local"  /\ users[u].l2r /\ users' = [users EXCEPT ![u].l2r = FALSE]
       \/ from = "remote" /\ users[u].r2l /\ users' = [users EXCEPT ![u].r2l = FALSE]
    /\ out' = NoFrame
    /\ UNCHANGED <<codecVars, connectVars, agentVars, now, srvVars, connVars, proxyObjs>>

\* wg.Wait of Forward returns once both copies have
ForwardDone(u) == ~users[u].l2r /\ ~users[u].r2l

\* Forward has returned; the deferred Close calls of handleConnection run
ForwardEnd(u) ==
    /\ users[u].state = "forwarding"
    /\ ForwardDone(u)
    /\ users' = [users EXCEPT ![u] = [NoUser EXCEPT !.state = "done"]]
    /\ out' = NoFrame
    /\ UNCHANGED <<codecVars, connectVars, agentVars, now, srvVars, connVars, proxyObjs>>

\* ------------------------------------------- Message.WriteTo / ReadFrom
\* number of bytes of a byte string
RECURSIVE ByteLen(_)
ByteLen(s) == IF s = <<>> THEN 0 ELSE Head(s).n + ByteLen(Tail(s))

\* concatenation of byte strings
Cat(s, t) ==
    IF s = <<>> THEN t
    ELSE IF t = <<>> THEN s
    ELSE IF s[Len(s)].b = t[1].b
      THEN SubSeq(s, 1, Len(s) - 1) \o <<Run(s[Len(s)].n + t[1].n, t[1].b)>> \o Tail(t)
      ELSE s \o t

\* the first k bytes of a byte string, and what follows them
RECURSIVE Take(_, _)
Take(s, k) ==
    IF k = 0 \/ s = <<>> THEN <<>>
    ELSE IF Head(s).n <= k THEN <<Head(s)>> \o Take(Tail(s), k - Head(s).n)
    ELSE <<Run(k, Head(s).b)>>

RECURSIVE Drop(_, _)
Drop(s, k) ==
    IF k = 0 \/ s = <<>> THEN s
    ELSE IF Head(s).n <= k THEN Drop(Tail(s), k - Head(s).n)
    ELSE <<Run(Head(s).n - k, Head(s).b)>> \o Tail(s)

\* byte i of a byte string
ByteAt(s, i) == Take(Drop(s, i - 1), 1)[1].b

\* binary.BigEndian.PutUint32 and binary.BigEndian.Uint32
PutUint32(v) ==
    Cat(Cat(<<Run(1, (v \div 16777216) % 256)>>, <<Run(1, (v \div 65536) % 256)>>),
        Cat(<<Run(1, (v \div 256) % 256)>>, <<Run(1, v % 256)>>))
\* (a uint32 read from the wire is kept as its two 16-bit halves)
Uint32_mut(s) ==
    [hi |-> ByteAt(s, 4) * 256 + ByteAt(s, 3), lo |-> ByteAt(s, 2) * 256 + ByteAt(s, 1)]
Uint32(s) ==
    [hi |-> ByteAt(s, 1) * 256 + ByteAt(s, 2), lo |-> ByteAt(s, 3) * 256 + ByteAt(s, 4)]

\* uint32(d) as a number, for a d that passed the size test
IntOf(d) == d.hi * 65536 + d.lo

\* the size test of WriteTo: dataLen > MaxDataLen
BodyTooLarge_mut(n) == n > MaxDataLen + 1
BodyTooLarge(n) == n > MaxDataLen

\* the size test of ReadFrom: dataLen > MaxDataLen, on a uint32
LenTooLarge_mut(d) == d.hi > MaxDataLen \div 65536
LenTooLarge(d) ==
    \/ d.hi > MaxDataLen \div 65536
    \/ d.hi = MaxDataLen \div 65536 /\ d.lo > MaxDataLen % 65536

\* what a call returned: the error and the byte count n
Call(op, err, n) == [op |-> op, err |-> err, n |-> n]

\* the header WriteTo builds for m
Header(m) == Cat(<<Run(1, m.Type)>>, PutUint32(ByteLen(m.Data)))

\* Message.WriteTo on the stream: a body over MaxDataLen is refused and
\* nothing is written; otherwise the header and then the body are written
WriteTo(m) ==
    /\ Len(sent) < MaxFrames
    /\ ~eof
    /\ IF BodyTooLarge(ByteLen(m.Data))
         THEN /\ call' = Call("WriteTo", "ErrMsgTooLarge", 0)
              /\ UNCHANGED <<wire, sent>>
         ELSE /\ wire' = Cat(wire, Cat(Header(m), m.Data))
              /\ sent' = Append(sent, m)
              /\ call' = Call("WriteTo", "", HeaderLen + ByteLen(m.Data))
    /\ UNCHANGED <<rcvd, eof, connectVars, agentVars, brokerVars>>

\* Message.ReadFrom on the stream.  io.ReadFull returns once the bytes it
\* asks for have arrived, or with an error when the stream ends before that.
\* Read the header, refuse a length over MaxDataLen, read the body.
Decode ==
    /\ IF ByteLen(wire) < HeaderLen
         THEN /\ eof
              /\ wire' = <<>>
              /\ call' = Call("ReadFrom", IF wire = <<>> THEN "EOF" ELSE "ErrUnexpectedEOF",
                              ByteLen(wire))
              /\ UNCHANGED rcvd
         ELSE LET header  == Take(wire, HeaderLen)
                  dataLen == Uint32(Drop(header, 1))
              IN IF LenTooLarge(dataLen)
                   THEN /\ wire' = Drop(wire, HeaderLen)
                        /\ call' = Call("ReadFrom", "ErrMsgTooLarge", HeaderLen)
                        /\ UNCHANGED rcvd
                   ELSE IF ByteLen(wire) < HeaderLen + IntOf(dataLen)
                   THEN /\ eof
                        /\ wire' = <<>>
                        /\ call' = Call("ReadFrom",
                                        IF ByteLen(wire) = HeaderLen THEN "EOF"
                                        ELSE "ErrUnexpectedEOF", ByteLen(wire))
                        /\ UNCHANGED rcvd
                   ELSE /\ rcvd' = Append(rcvd, [Type |-> ByteAt(header, 1),
                                       Data |-> Take(Drop(wire, HeaderLen), IntOf(dataLen))])
                        /\ wire' = Drop(wire, HeaderLen + IntOf(dataLen))
                        /\ call' = Call("ReadFrom", "", HeaderLen + IntOf(dataLen))

ReadFrom ==
    /\ Decode
    /\ UNCHANGED <<sent, eof, connectVars, agentVars, brokerVars>>

\* the peer writes the bytes bs itself, whatever they are
RawWrite(bs) ==
    /\ wire = <<>> /\ ~eof
    /\ Len(rcvd) < MaxFrames
    /\ wire' = bs
    /\ call' = Call("peer", "", ByteLen(bs))
    /\ UNCHANGED <<sent, rcvd, eof, connectVars, agentVars, brokerVars>>

\* the peer closes its end of the stream
StreamEnd ==
    /\ ~eof
    /\ eof' = TRUE
    /\ call' = Call("peer", "", 0)
    /\ UNCHANGED <<wire, sent, rcvd, connectVars, agentVars, brokerVars>>

\* ---------------------------------------------------- Connect.WriteMessage
\* c.writeMu.Lock()
WriteMuFree_mut == TRUE
WriteMuFree == ~cx.writeMu

\* task t calls WriteMessage(m) and acquires writeMu
WriteLock(t, m) ==
    /\ cx.pc[t] = "idle"
    /\ Len(sent) < MaxFrames
    /\ WriteMuFree
    /\ cx' = [cx EXCEPT !.writeMu = TRUE, !.pc[t] = "header", !.msg[t] = m]
    /\ UNCHANGED <<codecVars, agentVars, brokerVars>>

\* WriteTo, first Write: the header.  With an empty body WriteTo returns and
\* the deferred Unlock runs.
WriteHeader(t) ==
    /\ cx.pc[t] = "header"
    /\ LET m == cx.msg[t] IN
       IF BodyTooLarge(ByteLen(m.Data))
         THEN /\ cx' = [cx EXCEPT !.writeMu = FALSE, !.pc[t] = "idle",
                                  !.ret[t] = "ErrMsgTooLarge"]
              /\ UNCHANGED <<wire, sent>>
         ELSE /\ wire' = Cat(wire, Header(m))
              /\ sent' = Append(sent, m)
              /\ cx' = IF ByteLen(m.Data) <= 0
                         THEN [cx EXCEPT !.writeMu = FALSE, !.pc[t] = "idle",
                                         !.ret[t] = "nil", !.order = Append(@, t)]
                         ELSE [cx EXCEPT !.pc[t] = "body"]
    /\ UNCHANGED <<rcvd, call, eof, agentVars, brokerVars>>

\* WriteTo, second Write: the body; then the deferred Unlock
WriteBody(t) ==
    /\ cx.pc[t] = "body"
    /\ wire' = Cat(wire, cx.msg[t].Data)
    /\ cx' = [cx EXCEPT !.writeMu = FALSE, !.pc[t] = "idle", !.ret[t] = "nil",
                        !.order = Append(@, t)]
    /\ UNCHANGED <<sent, rcvd, call, eof, agentVars, brokerVars>>

\* ----------------------------------------------------- Connect.ReadMessage
\* the reader acquires readMu
ReadLock ==
    /\ cx.rpc = "idle"
    /\ ~cx.readMu
    /\ cx' = [cx EXCEPT !.readMu = TRUE, !.rpc = "reading"]
    /\ UNCHANGED <<codecVars, agentVars, brokerVars>>

\* msg.ReadFrom(c.conn) returns; the deferred Unlock runs
ReadMessage ==
    /\ cx.rpc = "reading"
    /\ Decode
    /\ cx' = [cx EXCEPT !.readMu = FALSE, !.rpc = "idle", !.overlap = @ \/ cx.writeMu]
    /\ UNCHANGED <<sent, eof, agentVars, brokerVars>>

\* ------------------------------------------------------------ Connect.Close
\* the test of Connect.Close: if c.closed
AlreadyClosed_mut == FALSE
AlreadyClosed == cx.closed

\* task t calls Connect.Close and acquires closedMu
CloseLock(t) ==
    /\ cx.pc[t] = "idle"
    /\ ~cx.closedMu
    /\ cx' = [cx EXCEPT !.closedMu = TRUE, !.pc[t] = "closed?"]
    /\ UNCHANGED <<codecVars, agentVars, brokerVars>>

\* the deferred unlocks of a returning Connect.Close, and of the
\* ClientSession.Close that called it
Return(t, r) ==
    [cx EXCEPT !.closedMu = FALSE, !.pc[t] = "idle", !.ret[t] = r, !.returned = TRUE,
               !.mu = IF cx.inSession[t] THEN FALSE ELSE @,
               !.sReturned = @ \/ cx.inSession[t],
               !.inSession[t] = FALSE]

\* if c.closed { return nil }; c.closed = true
CloseCheck(t) ==
    /\ cx.pc[t] = "closed?"
    /\ cx' = IF AlreadyClosed
               THEN Return(t, "nil")
               ELSE [cx EXCEPT !.closed = TRUE, !.pc[t] = "conn.Close"]
    /\ UNCHANGED <<codecVars, agentVars, brokerVars>>

\* return c.conn.Close()
CloseTransport(t) ==
    /\ cx.pc[t] = "conn.Close"
    /\ cx' = [Return(t, "conn.Close") EXCEPT !.transport = cx.transport + 1]
    /\ UNCHANGED <<codecVars, agentVars, brokerVars>>

\* ------------------------------------------------------ ClientSession.Close
\* the select of ClientSession.Close: case <-cs.stopCh
StopChClosed_mut == FALSE
StopChClosed == cx.stopCh > 0

\* task t calls ClientSession.Close and acquires cs.mu
SessionLock(t) ==
    /\ cx.pc[t] = "idle"
    /\ ~cx.mu
    /\ cx' = [cx EXCEPT !.mu = TRUE, !.pc[t] = "select", !.inSession[t] = TRUE]
    /\ UNCHANGED <<codecVars, agentVars, brokerVars>>

\* return if stopCh is closed, otherwise close it and go on to cs.conn.Close()
SessionSelect(t) ==
    /\ cx.pc[t] = "select"
    /\ cx' = IF StopChClosed
               THEN [cx EXCEPT !.mu = FALSE, !.pc[t] = "idle", !.ret[t] = "nil",
                               !.sReturned = TRUE, !.inSession[t] = FALSE]
               ELSE [cx EXCEPT !.stopCh = @ + 1, !.pc[t] = "cs.conn.Close"]
    /\ UNCHANGED <<codecVars, agentVars, brokerVars>>

\* cs.conn.Close(): acquire closedMu
SessionConnClose(t) ==
    /\ cx.pc[t] = "cs.conn.Close"
    /\ ~cx.closedMu
    /\ cx' = [cx EXCEPT !.closedMu = TRUE, !.pc[t] = "closed?"]
    /\ UNCHANGED <<codecVars, agentVars, brokerVars>>

\* ------------------------------------------------------ the broker's locks
\* Lock and Unlock of the mutex named l
Lock(l) == [acquire |-> TRUE, l |-> l]
Unlock(l) == [acquire |-> FALSE, l |-> l]
Held(l) == <<Lock(l), Unlock(l)>>

\* ClientSession.Close: cs.mu around the select and, when the stop channel
\* was open, around Connect.Close with its closedMu
CloseLocks == { <<Lock("mu"), Unlock("mu")>>,
                <<Lock("mu"), Lock("closedMu"), Unlock("closedMu"), Unlock("mu")>> }

\* end of handleNewConnection: the registry entry is deleted under
\* sessionsMu, no other lock held
CleanupLocks_mut == <<Lock("mu"), Lock("sessionsMu"), Unlock("sessionsMu"), Unlock("mu")>>
CleanupLocks == Held("sessionsMu")

\* the critical sections of the broker: every stretch of code between taking
\* a lock while holding none and holding none again
LockPaths ==
    \* Server.Stop: the sessions are closed under sessionsMu, then the
    \* proxies are stopped under proxiesMu; handleNewConnection: the old
    \* session is closed under sessionsMu
    { <<Lock("sessionsMu")>> \o cl \o <<Unlock("sessionsMu")>> : cl \in CloseLocks }
    \cup { <<Lock("proxiesMu")>> \o Held("pmu") \o <<Unlock("proxiesMu")>> }
    \* handleNewConnection: insertion and, at its end, deletion
    \cup { Held("sessionsMu"), CleanupLocks }
    \* handleSession and heartbeatLoop: ReadMessage, lastActive,
    \* WriteMessage; handleRegisterTunnel: Proxy.Start, s.proxies[name]
    \cup { Held("readMu"), Held("mu"), Held("writeMu"), Held("pmu"), Held("proxiesMu") }
    \* handleSession after a failed read, heartbeatLoop after a timeout or
    \* a failed Ping: session.Close; IsClosed
    \cup CloseLocks \cup { Held("closedMu") }

\* task t enters one of the critical sections
Enter(t, path) ==
    /\ cx.pc[t] = "idle" /\ cx.locks[t] = <<>>
    /\ cx' = [cx EXCEPT !.locks[t] = path]
    /\ UNCHANGED <<codecVars, agentVars, brokerVars>>

\* task t performs its next lock operation; Lock waits for the mutex
LockStep(t) ==
    /\ cx.locks[t] # <<>>
    /\ LET op == Head(cx.locks[t]) IN
         /\ op.acquire => ~cx[op.l]
         /\ cx' = [cx EXCEPT ![op.l] = op.acquire, !.locks[t] = Tail(@)]
    /\ UNCHANGED <<codecVars, agentVars, brokerVars>>

\* ------------------------------------------- MessageQueue, BatchProcessor
\* NewMessageQueue (ring buffer)
NewRing(batchSize) ==
    LET capacity == IF batchSize * 4 < MinCapacity THEN MinCapacity ELSE batchSize * 4
    IN  [messages |-> [i \in 0..(capacity - 1) |-> 0], head |-> 0, tail |-> 0,
         size |-> 0, capacity |-> capacity, closed |-> FALSE, batchSize |-> batchSize]

\* NewMessageQueue (container/list)
NewList(batchSize) == [queue |-> <<>>, closed |-> FALSE, batchSize |-> batchSize]

\* expand: where the second copy, of messages[:tail], lands in newMessages
WrapOffset_mut(q) == q.capacity
WrapOffset(q) == q.capacity - q.head

\* MessageQueue.expand
expand(q) ==
    LET newCapacity == q.capacity * 2
        newMessages ==
            [i \in 0..(newCapacity - 1) |->
                IF q.tail > q.head
                THEN IF i < q.tail - q.head THEN q.messages[q.head + i] ELSE 0
                ELSE IF i >= WrapOffset(q) /\ i < WrapOffset(q) + q.tail
                     THEN q.messages[i - WrapOffset(q)]
                     ELSE IF i < q.capacity - q.head THEN q.messages[q.head + i] ELSE 0]
    IN  [q EXCEPT !.messages = newMessages, !.head = 0, !.tail = q.size,
                  !.capacity = newCapacity]

\* MessageQueue.Push (ring buffer), without the Signal
RingPush(q, m) ==
    IF q.closed THEN q
    ELSE LET e == IF q.size >= q.capacity THEN expand(q) ELSE q
         IN  [e EXCEPT !.messages[e.tail] = m, !.tail = (e.tail + 1) % e.capacity,
                       !.size = e.size + 1]

\* MessageQueue.PopBatch (ring buffer), once it no longer waits: the value
\* returned and the queue left behind
RingBatch(q) ==
    LET n == IF q.batchSize > q.size THEN q.size ELSE q.batchSize
    IN  [i \in 1..n |-> q.messages[(q.head + i - 1) % q.capacity]]
RingPop(q) ==
    LET n == Len(RingBatch(q))
    IN  [q EXCEPT !.messages = [i \in DOMAIN q.messages |->
                                   IF (i - q.head + q.capacity) % q.capacity < n
                                   THEN 0 ELSE q.messages[i]],
                  !.head = (q.head + n) % q.capacity, !.size = q.size - n]

\* MessageQueue.Push and PopBatch (container/list)
ListPush(l, m) == IF l.closed THEN l ELSE [l EXCEPT !.queue = Append(l.queue, m)]
ListBatch(l) ==
    SubSeq(l.queue, 1, IF l.batchSize < Len(l.queue) THEN l.batchSize ELSE Len(l.queue))
ListPop(l) == [l EXCEPT !.queue = SubSeq(l.queue, Len(ListBatch(l)) + 1, Len(l.queue))]

\* the messages a ring queue holds, oldest first
RingContents(q) == [i \in 1..q.size |-> q.messages[(q.head + i - 1) % q.capacity]]

\* the two queues are created with the same batchSize
NewMessageQueue(batchSize) ==
    /\ processor.queue.capacity = 0
    /\ processor' = [processor EXCEPT !.queue = NewRing(batchSize),
                                       !.list = NewList(batchSize)]
    /\ UNCHANGED <<agent, client, heartbeat, pool, codecVars, connectVars, brokerVars>>

\* the same Push on both queues
QueuePush ==
    /\ processor.queue.capacity > 0
    /\ processor.pushed < MaxPush
    /\ LET m == processor.pushed + 1 IN
         processor' = [processor EXCEPT !.queue = RingPush(@, m),
                                        !.list = ListPush(@, m),
                                        !.pushed = m]
    /\ UNCHANGED <<agent, client, heartbeat, pool, codecVars, connectVars, brokerVars>>

\* the same PopBatch on both queues, when neither waits
QueuePopBatch ==
    /\ processor.queue.capacity > 0
    /\ ~(processor.queue.size = 0 /\ ~processor.queue.closed)
    /\ ~(Len(processor.list.queue) = 0 /\ ~processor.list.closed)
    /\ processor' = [processor EXCEPT
            !.ret = IF processor.queue.closed THEN NoResult
                    ELSE [nil |-> FALSE, batch |-> RingBatch(processor.queue)],
            !.queue = IF @.closed THEN @ ELSE RingPop(@),
            !.lret = IF processor.list.closed THEN NoResult
                     ELSE [nil |-> FALSE, batch |-> ListBatch(processor.list)],
            !.list = IF @.closed THEN @ ELSE ListPop(@)]
    /\ UNCHANGED <<agent, client, heartbeat, pool, codecVars, connectVars, brokerVars>>

\* the same Close on both queues
QueueClose ==
    /\ processor.queue.capacity > 0
    /\ processor' = [processor EXCEPT !.queue.closed = TRUE, !.list.closed = TRUE]
    /\ UNCHANGED <<agent, client, heartbeat, pool, codecVars, connectVars, brokerVars>>

\* NewBatchProcessor, then BatchProcessor.Start: the workers are started
ProcessorStart ==
    /\ processor.queue.capacity = 0
    /\ processor' = [processor EXCEPT
            !.queue = NewRing(BatchSize),
            !.worker = [w \in Workers |-> [pc |-> "select", batch |-> <<>>]]]
    /\ UNCHANGED <<agent, client, heartbeat, pool, codecVars, connectVars, brokerVars>>

\* mq.cond.Signal(): one of the workers waiting in cond.Wait, if any, goes
\* back to the test of its loop
Signal_mut(worker, w) == worker
Signal(worker, w) == [worker EXCEPT ![w].pc = "pop"]

\* messageLoop: c.processor.Push(msg) of the next message read
ProcessorPush ==
    /\ processor.worker[1].pc # "none"
    /\ processor.pushed < MaxFrames
    /\ LET m == processor.pushed + 1
           waiting == {w \in Workers : processor.worker[w].pc = "wait"}
       IN  \/ /\ processor.queue.closed \/ waiting = {}
              /\ processor' = [processor EXCEPT !.queue = RingPush(@, m), !.pushed = m]
           \/ /\ ~processor.queue.closed
              /\ \E w \in waiting :
                    processor' = [processor EXCEPT !.queue = RingPush(@, m), !.pushed = m,
                                                   !.worker = Signal(@, w)]
    /\ UNCHANGED <<agent, client, heartbeat, pool, codecVars, connectVars, brokerVars>>

\* worker: the select on bp.stopCh
WorkerSelect(w) ==
    /\ processor.worker[w].pc = "select"
    /\ processor' = [processor EXCEPT
            !.worker[w].pc = IF processor.stopCh THEN "done" ELSE "pop"]
    /\ UNCHANGED <<agent, client, heartbeat, pool, codecVars, connectVars, brokerVars>>

\* worker: PopBatch under mq.mu: wait while the queue is empty and open,
\* nil when it is closed, a batch otherwise
WorkerPopBatch(w) ==
    /\ processor.worker[w].pc = "pop"
    /\ LET q == processor.queue IN
         processor' =
             IF q.size = 0 /\ ~q.closed
             THEN [processor EXCEPT !.worker[w].pc = "wait"]
             ELSE IF q.closed
             THEN [processor EXCEPT !.worker[w].pc = "done"]
             ELSE [processor EXCEPT !.worker[w] = [pc |-> "handle", batch |-> RingBatch(q)],
                                    !.queue = RingPop(q)]
    /\ UNCHANGED <<agent, client, heartbeat, pool, codecVars, connectVars, brokerVars>>

\* handleBatchMessages: handleSingleMessage is started on the next message
\* of the batch; after the last one the worker loops
WorkerHandle(w) ==
    /\ processor.worker[w].pc = "handle"
    /\ LET batch == processor.worker[w].batch IN
         processor' =
             IF batch = <<>>
             THEN [processor EXCEPT !.worker[w].pc = "select"]
             ELSE [processor EXCEPT !.worker[w].batch = Tail(batch),
                                    !.handled = Append(@, Head(batch))]
    /\ UNCHANGED <<agent, client, heartbeat, pool, codecVars, connectVars, brokerVars>>

\* BatchProcessor.Stop: close(bp.stopCh), queue.Close with its Broadcast
BatchStop ==
    /\ processor.worker[1].pc # "none"
    /\ processor.stop = "idle"
    /\ processor' = [processor EXCEPT
            !.stopCh = TRUE, !.stop = "wait", !.queue.closed = TRUE,
            !.worker = [w \in Workers |->
                           IF @[w].pc = "wait" THEN [@[w] EXCEPT !.pc = "pop"] ELSE @[w]]]
    /\ UNCHANGED <<agent, client, heartbeat, pool, codecVars, connectVars, brokerVars>>

\* BatchProcessor.Stop: bp.wg.Wait() returns
BatchStopReturn ==
    /\ processor.stop = "wait"
    /\ \A w \in Workers : processor.worker[w].pc = "done"
    /\ processor' = [processor EXCEPT !.stop = "returned"]
    /\ UNCHANGED <<agent, client, heartbeat, pool, codecVars, connectVars, brokerVars>>

\* --------------------------------------------------- Client.heartbeatLoop
\* the configuration is read: heartbeat_interval is d
LoadConfig(d) ==
    /\ heartbeat.pc = "new"
    /\ heartbeat' = [heartbeat EXCEPT !.pc = "loaded", !.configured = d, !.interval = d]
    /\ UNCHANGED <<agent, client, processor, pool, codecVars, connectVars, brokerVars>>

\* ClientConfig.Validate: a missing or non-positive interval becomes 30 s
Validate ==
    /\ heartbeat.pc = "loaded"
    /\ heartbeat' = [heartbeat EXCEPT
            !.pc = "valid",
            !.interval = IF Positive(@) THEN @ ELSE DefaultInterval]
    /\ UNCHANGED <<agent, client, processor, pool, codecVars, connectVars, brokerVars>>

\* heartbeatLoop: interval := time.Duration(HeartbeatInterval) * time.Second,
\* 30 s when that is not positive; the ticker is created with it. Tests
\* build the configuration without Validate
HeartbeatLoopStart ==
    /\ heartbeat.pc \in {"loaded", "valid"}
    /\ LET interval == Mul64(heartbeat.interval, Second) IN
         heartbeat' = [heartbeat EXCEPT
             !.pc = "ticking",
             !.ticker = IF Positive(interval) THEN interval ELSE DefaultInterval,
             !.overflow = Positive(heartbeat.interval)
                           /\ Overflows(heartbeat.interval, Second)]
    /\ UNCHANGED <<agent, client, processor, pool, codecVars, connectVars, brokerVars>>

\* ---------------------------------------------------------- ConnectionPool
NewConnectionPool(config) ==
    /\ pool.config.MaxActive = 0
    /\ pool' = [pool EXCEPT !.config = config]
    /\ UNCHANGED <<agent, client, processor, heartbeat, codecVars, connectVars, brokerVars>>

\* Get, under p.mu: refused when the pool is closed or numActive has reached
\* MaxActive; an idle connection is taken and counted, unless it has been
\* idle for too long (expired): then, and when none is idle, the lock is
\* released and createNew follows
Get(t, expired) ==
    /\ pool.config.MaxActive > 0
    /\ pool.pc[t] = "idle"
    /\ pool' =
         IF pool.closed \/ pool.numActive >= pool.config.MaxActive THEN pool
         ELSE IF pool.conns > 0
         THEN IF expired
              THEN [pool EXCEPT !.conns = @ - 1, !.pc[t] = "createNew"]
              ELSE [pool EXCEPT !.conns = @ - 1, !.numActive = @ + 1, !.held[t] = @ + 1]
         ELSE [pool EXCEPT !.pc[t] = "createNew"]
    /\ UNCHANGED <<agent, client, processor, heartbeat, codecVars, connectVars, brokerVars>>

\* createNew: the factory dials outside the lock; on success numActive is
\* incremented under p.mu
createNew(t, ok) ==
    /\ pool.pc[t] = "createNew"
    /\ pool' = IF ok THEN [pool EXCEPT !.pc[t] = "idle", !.numActive = @ + 1,
                                       !.held[t] = @ + 1]
                     ELSE [pool EXCEPT !.pc[t] = "idle"]
    /\ UNCHANGED <<agent, client, processor, heartbeat, codecVars, connectVars, brokerVars>>

\* Put of a connection that Get returned to t
Put(t) ==
    /\ pool.pc[t] = "idle"
    /\ pool.held[t] > 0
    /\ pool' = IF pool.closed \/ pool.conns >= pool.config.MaxIdle
                 THEN [pool EXCEPT !.numActive = @ - 1, !.held[t] = @ - 1]
                 ELSE [pool EXCEPT !.conns = @ + 1, !.numActive = @ - 1,
                                   !.held[t] = @ - 1]
    /\ UNCHANGED <<agent, client, processor, heartbeat, codecVars, connectVars, brokerVars>>

\* ConnectionPool.Close
PoolClose ==
    /\ pool.config.MaxActive > 0
    /\ ~pool.closed
    /\ pool' = [pool EXCEPT !.closed = TRUE, !.conns = 0]
    /\ UNCHANGED <<agent, client, processor, heartbeat, codecVars, connectVars, brokerVars>>

\* ------------------------------------------------- Client.handleNewProxy
\* handleSingleMessage decodes a NewProxy notification and starts the task
HandleNewProxy(n, name, pid) ==
    /\ agent[n].pc = "idle"
    /\ agent' = [agent EXCEPT ![n] = [NoTask EXCEPT !.pc = "lookup", !.tunnel = name,
                                                    !.proxyID = pid]]
    /\ UNCHANGED <<client, utilVars, codecVars, connectVars, brokerVars>>

\* the tunnelCache lookup
Exists_mut(name) == TRUE
Exists(name) == name \in TunnelCache

\* 1. look the tunnel up; return if it is unknown
Lookup(n) ==
    /\ agent[n].pc = "lookup"
    /\ agent' = IF Exists(agent[n].tunnel)
                  THEN [agent EXCEPT ![n].pc = "dialLocal",
                                     ![n].steps = Append(@, "found")]
                  ELSE [agent EXCEPT ![n].pc = "done"]
    /\ UNCHANGED <<client, utilVars, codecVars, connectVars, brokerVars>>

\* 2. dial the private target; return if that fails
DialLocal(n, ok) ==
    /\ agent[n].pc = "dialLocal"
    /\ agent' = IF ok
                  THEN [agent EXCEPT ![n].pc = "dialServer", ![n].local = "open",
                                     ![n].steps = Append(@, "local")]
                  ELSE [agent EXCEPT ![n].pc = "done"]
    /\ UNCHANGED <<client, utilVars, codecVars, connectVars, brokerVars>>

\* 3. open a new connection to the broker; on failure close localConn
DialServer(n, ok) ==
    /\ agent[n].pc = "dialServer"
    /\ agent' = IF ok
                  THEN [agent EXCEPT ![n].pc = "ready", ![n].server = "open",
                                     ![n].steps = Append(@, "server")]
                  ELSE [agent EXCEPT ![n].pc = "done", ![n].local = "closed"]
    /\ UNCHANGED <<client, utilVars, codecVars, connectVars, brokerVars>>

\* 4. write ProxyReady with the request's proxyID; on failure close both
\* sockets; 5. otherwise start proxyData
WriteReady(n, ok) ==
    /\ agent[n].pc = "ready"
    /\ agent' = IF ok
                  THEN [agent EXCEPT ![n].pc = "forwarding", ![n].ready = agent[n].proxyID,
                                     ![n].steps = Append(@, "ready"),
                                     ![n].l2r = TRUE, ![n].r2l = TRUE]
                  ELSE [agent EXCEPT ![n].pc = "done", ![n].local = "closed",
                                     ![n].server = "closed"]
    /\ UNCHANGED <<client, utilVars, codecVars, connectVars, brokerVars>>

\* ------------------------------------------------------- Client.proxyData
\* the io.Copy reading from one side returns
ProxyCopyEnd(n, from) ==
    /\ agent[n].pc = "forwarding"
    /\ \/ from = "local"  /\ agent[n].l2r /\ agent' = [agent EXCEPT ![n].l2r = FALSE]
       \/ from = "remote" /\ agent[n].r2l /\ agent' = [agent EXCEPT ![n].r2l = FALSE]
    /\ UNCHANGED <<client, utilVars, codecVars, connectVars, brokerVars>>

\* wg.Wait returns once both copies have; the deferred Close calls run
ProxyDataEnd(n) ==
    /\ agent[n].pc = "forwarding"
    /\ ~agent[n].l2r /\ ~agent[n].r2l
    /\ agent' = [agent EXCEPT ![n].pc = "done", ![n].local = "closed",
                              ![n].server = "closed"]
    /\ UNCHANGED <<client, utilVars, codecVars, connectVars, brokerVars>>

\* ------------------------------------------------ Client.Start, Client.Stop
\* the test of Client.Start: if c.running
Running_mut == FALSE
Running == client.running

\* a call returns to its caller
Called(cl, name, err) == [cl EXCEPT !.pc = "idle", !.last = name, !.err = err]

\* Client.Start is called: a Start that finds the client running returns an
\* error, otherwise running is set
StartCall ==
    /\ client.pc = "idle"
    /\ client.calls < MaxCalls
    /\ client' =
         IF Running
           THEN Called([client EXCEPT !.calls = @ + 1], "Start", TRUE)
           ELSE [client EXCEPT !.calls = @ + 1, !.running = TRUE, !.pc = "tunnelCache"]
    /\ UNCHANGED <<agent, utilVars, codecVars, connectVars, brokerVars>>

\* the tunnel cache is built
BuildCache ==
    /\ client.pc = "tunnelCache"
    /\ client' = [client EXCEPT !.caches = @ + 1, !.pc = "connect"]
    /\ UNCHANGED <<agent, utilVars, codecVars, connectVars, brokerVars>>

\* c.connect(): on an error Start returns it, leaving running set
Connect(ok) ==
    /\ client.pc = "connect"
    /\ client' = IF ok THEN [client EXCEPT !.conn = "open", !.conns = @ + 1,
                                           !.pc = "authenticate"]
                       ELSE Called(client, "Start", TRUE)
    /\ UNCHANGED <<agent, utilVars, codecVars, connectVars, brokerVars>>

\* c.authenticate(): on an error the connection is closed and Start returns
Authenticate(ok) ==
    /\ client.pc = "authenticate"
    /\ client' = IF ok THEN [client EXCEPT !.pc = "registerTunnels"]
                       ELSE Called([client EXCEPT !.conn = "closed"], "Start", TRUE)
    /\ UNCHANGED <<agent, utilVars, codecVars, connectVars, brokerVars>>

\* c.registerTunnels(): on an error the connection is closed and Start
\* returns
RegisterTunnels(ok) ==
    /\ client.pc = "registerTunnels"
    /\ client' = IF ok THEN [client EXCEPT !.pc = "loops"]
                       ELSE Called([client EXCEPT !.conn = "closed"], "Start", TRUE)
    /\ UNCHANGED <<agent, utilVars, codecVars, connectVars, brokerVars>>

\* the processor, messageLoop and heartbeatLoop are started; Start returns
StartLoops ==
    /\ client.pc = "loops"
    /\ client' = Called([client EXCEPT !.messageLoop = TRUE, !.heartbeatLoop = TRUE],
                        "Start", FALSE)
    /\ UNCHANGED <<agent, utilVars, codecVars, connectVars, brokerVars>>

\* Client.Stop is called: a Stop that finds the client not running returns,
\* otherwise running is reset
StopCall ==
    /\ client.pc = "idle"
    /\ client.calls < MaxCalls
    /\ client' =
         IF ~client.running
           THEN Called([client EXCEPT !.calls = @ + 1], "Stop", FALSE)
           ELSE [client EXCEPT !.calls = @ + 1, !.running = FALSE, !.pc = "close(stopCh)"]
    /\ UNCHANGED <<agent, utilVars, codecVars, connectVars, brokerVars>>

\* close(c.stopCh): panics on a channel that is already closed
CloseStopCh ==
    /\ client.pc = "close(stopCh)"
    /\ client' = IF client.stopCh > 0
                   THEN [client EXCEPT !.stopCh = @ + 1, !.panicked = TRUE, !.pc = "panic"]
                   ELSE [client EXCEPT !.stopCh = @ + 1, !.pc = "conn.Close"]
    /\ UNCHANGED <<agent, utilVars, codecVars, connectVars, brokerVars>>

\* if c.conn != nil { c.conn.Close() }
CloseControl ==
    /\ client.pc = "conn.Close"
    /\ client' = [client EXCEPT !.conn = IF @ = "nil" THEN @ ELSE "closed",
                                !.pc = "processor.Stop"]
    /\ UNCHANGED <<agent, utilVars, codecVars, connectVars, brokerVars>>

\* BatchProcessor.Stop: close(bp.stopCh) panics on a channel that is
\* already closed
ProcessorStop ==
    /\ client.pc = "processor.Stop"
    /\ client' = IF client.procStops > 0
                   THEN [client EXCEPT !.procStops = @ + 1, !.panicked = TRUE, !.pc = "panic"]
                   ELSE [client EXCEPT !.procStops = @ + 1, !.pc = "wg.Wait"]
    /\ UNCHANGED <<agent, utilVars, codecVars, connectVars, brokerVars>>

\* c.wg.Wait() returns when both loops have; Stop returns
StopWaitLoops ==
    /\ client.pc = "wg.Wait"
    /\ ~client.messageLoop /\ ~client.heartbeatLoop
    /\ client' = Called(client, "Stop", FALSE)
    /\ UNCHANGED <<agent, utilVars, codecVars, connectVars, brokerVars>>

\* messageLoop returns: stopCh is closed, or ReadMessage failed with an
\* error that is not a timeout
MessageLoopExit ==
    /\ ~client.panicked
    /\ client.messageLoop
    /\ client' = [client EXCEPT !.messageLoop = FALSE]
    /\ UNCHANGED <<agent, utilVars, codecVars, connectVars, brokerVars>>

\* heartbeatLoop returns: stopCh is closed, or sendHeartbeat failed
HeartbeatLoopExit ==
    /\ ~client.panicked
    /\ client.heartbeatLoop
    /\ client' = [client EXCEPT !.heartbeatLoop = FALSE]
    /\ UNCHANGED <<agent, utilVars, codecVars, connectVars, brokerVars>>

\* ------------------------------------------------------------------- specs
\* the session engine run by the agents in C, which send the first frames
\* FM and then the frames M
Engine(C, FM, M) ==
    \/ Start
    \/ \E c \in C : Accept(c)
    \/ AcceptLoopExit
    \/ \E c \in C : AuthReadErr(c)
    \/ \E c \in C, m \in FM : AuthRead(c, m)
    \/ \E c \in C : Evict(c)
    \/ \E c \in C : Register(c)
    \/ \E c \in C : LoopSelect(c)
    \/ \E c \in C : SessionReadErr(c)
    \/ \E c \in C, m \in M : SessionRead(c, m)
    \/ \E c \in C : Dispatch(c)
    \/ \E c \in C : Cleanup(c)
    \/ \E c \in C : HbStop(c)
    \/ \E c \in C, err \in BOOLEAN : HbTick(c, err)
    \/ StopSignal
    \/ StopListener
    \/ StopSessions
    \/ StopProxies
    \/ StopWait

\* tunnel registration by the agents in C, port listeners, public
\* connections, and the data channels D that agents open to the control port
Tunnels(C, D) ==
    \/ \E c \in C : RegInsert(c)
    \/ \E i \in 1..MaxProxies : ProxyAcceptExit(i)
    \/ \E i \in 1..MaxProxies, u \in Users, ok \in BOOLEAN : HandleConnection(i, u, ok)
    \/ \E u \in PairUsers, from \in {"local", "remote"} : CopyEnd(u, from)
    \/ \E u \in Users : ForwardEnd(u)
    \/ \E d \in D : Accept(d)
    \/ \E d \in D, m \in DataMsgs : AuthRead(d, m)

\* the clock, the two read deadlines, and agents falling silent
Clock(C) ==
    \/ Tick
    \/ \E c \in C : AgentSilent(c)
    \/ \E c \in C : AuthReadTimeout(c)
    \/ \E c \in C : SessionReadTimeout(c)

\* agents racing for the registry; no tunnels
InitSession == Init /\ portSet = {}
NextSession == Engine(Conns, FirstMsgs, ControlMsgs)
SpecSession == InitSession /\ [][NextSession]_vars

\* the broker with one agent, its tunnels, the public connections and the
\* data channels
Next == Engine(OwnerConns, FirstMsgs, SessionMsgs) \/ Tunnels(OwnerConns, DataConns)
Spec == Init /\ [][Next]_vars

\* two agents and a caller of Stop
NextStop == Engine(StopConns, FirstMsgs, ControlMsgs)
SpecStop == InitSession /\ [][NextStop]_vars

\* one session against the clock, its agent sending frames of every kind
ActiveMsgs == SessionMsgs \cup {Bare(255)}
NextActive ==
    \/ Engine(TimedConns, FirstMsgs, ActiveMsgs)
    \/ Clock(TimedConns)
    \/ \E c \in TimedConns : RegInsert(c)
SpecActive == InitSession /\ [][NextActive]_vars

\* one connection against the clock
NextTimed == Engine(TimedConns, FirstMsgs, ControlMsgs) \/ Clock(TimedConns)
SpecTimed == InitSession /\ [][NextTimed]_vars

\* frames written to and read from one stream
NextCodec ==
    \/ \E m \in Messages : WriteTo(m)
    \/ ReadFrom
SpecCodec == InitSession /\ [][NextCodec]_vars

\* a decoder fed by a peer that writes what it likes and may hang up
NextDecode ==
    \/ \E bs \in RawStreams : RawWrite(bs)
    \/ StreamEnd
    \/ ReadFrom
SpecDecode == InitSession /\ [][NextDecode]_vars

\* tasks writing messages on one Connect while another task reads them
NextConnect ==
    \/ \E t \in Tasks, m \in ConnMsgs : WriteLock(t, m)
    \/ \E t \in Tasks : WriteHeader(t)
    \/ \E t \in Tasks : WriteBody(t)
    \/ ReadLock
    \/ ReadMessage
SpecConnect == InitSession /\ [][NextConnect]_vars

\* tasks closing one Connect, directly and through its ClientSession
NextClose ==
    \/ \E t \in Tasks : CloseLock(t)
    \/ \E t \in Tasks : CloseCheck(t)
    \/ \E t \in Tasks : CloseTransport(t)
    \/ \E t \in Tasks : SessionLock(t)
    \/ \E t \in Tasks : SessionSelect(t)
    \/ \E t \in Tasks : SessionConnClose(t)
SpecClose == InitSession /\ [][NextClose]_vars

\* the agent serving NewProxy notifications
NextAgent ==
    \/ \E n \in Users, name \in NoticeNames, pid \in ProxyIDs : HandleNewProxy(n, name, pid)
    \/ \E n \in Users : Lookup(n)
    \/ \E n \in Users, ok \in BOOLEAN : DialLocal(n, ok)
    \/ \E n \in Users, ok \in BOOLEAN : DialServer(n, ok)
    \/ \E n \in Users, ok \in BOOLEAN : WriteReady(n, ok)
    \/ \E n \in Users, from \in {"local", "remote"} : ProxyCopyEnd(n, from)
    \/ \E n \in Users : ProxyDataEnd(n)
SpecAgent == InitSession /\ [][NextAgent]_vars

\* the tasks of the broker taking and releasing its locks
NextLocks ==
    \/ \E t \in Tasks, path \in LockPaths : Enter(t, path)
    \/ \E t \in Tasks : LockStep(t)
SpecLocks == InitSession /\ [][NextLocks]_vars

\* every task keeps running and a mutex is handed to every waiter in turn
FairLocks == SpecLocks /\ \A t \in Tasks : SF_vars(LockStep(t))

\* Push, PopBatch and Close applied to a ring queue and a list queue alike
NextQueue ==
    \/ \E b \in BatchSizes : NewMessageQueue(b)
    \/ QueuePush
    \/ QueuePopBatch
    \/ QueueClose
SpecQueue == InitSession /\ [][NextQueue]_vars

\* the agent's BatchProcessor: messageLoop pushes, the workers handle
NextProcessor ==
    \/ ProcessorStart
    \/ ProcessorPush
    \/ \E w \in Workers : WorkerSelect(w) \/ WorkerPopBatch(w) \/ WorkerHandle(w)
    \/ BatchStop
    \/ BatchStopReturn
SpecProcessor == InitSession /\ [][NextProcessor]_vars

\* every worker keeps running
FairProcessor ==
    SpecProcessor /\ \A w \in Workers :
        WF_vars(WorkerSelect(w)) /\ WF_vars(WorkerPopBatch(w)) /\ WF_vars(WorkerHandle(w))

\* tasks sharing one ConnectionPool
NextPool ==
    \/ \E config \in PoolConfigs : NewConnectionPool(config)
    \/ \E t \in Tasks, expired \in BOOLEAN : Get(t, expired)
    \/ \E t \in Tasks, ok \in BOOLEAN : createNew(t, ok)
    \/ \E t \in Tasks : Put(t)
    \/ PoolClose
SpecPool == InitSession /\ [][NextPool]_vars

\* the agent's heartbeat ticker for every configured interval
NextHeartbeat ==
    \/ \E d \in Intervals : LoadConfig(d)
    \/ Validate
    \/ HeartbeatLoopStart
SpecHeartbeat == InitSession /\ [][NextHeartbeat]_vars

\* Start and Stop called on one Client, one call after the other, while its
\* loops run
NextClient ==
    \/ StartCall
    \/ BuildCache
    \/ \E ok \in BOOLEAN : Connect(ok)
    \/ \E ok \in BOOLEAN : Authenticate(ok)
    \/ \E ok \in BOOLEAN : RegisterTunnels(ok)
    \/ StartLoops
    \/ StopCall
    \/ CloseStopCh
    \/ CloseControl
    \/ ProcessorStop
    \/ StopWaitLoops
    \/ MessageLoopExit
    \/ HeartbeatLoopExit
SpecClient == InitSession /\ [][NextClient]_vars

\* every started task keeps running: the handler, the heartbeat task (its
\* ticker fires again and again), a read on a closed socket returns, and
\* the caller of Stop goes on
FairTimed ==
    /\ SpecTimed
    /\ \A c \in TimedConns :
          /\ WF_vars(LoopSelect(c)) /\ WF_vars(Dispatch(c)) /\ WF_vars(Cleanup(c))
          /\ WF_vars(HbTick(c, FALSE)) /\ WF_vars(HbStop(c))
          /\ WF_vars(connClosed[c] /\ SessionReadErr(c))
          /\ WF_vars(AuthReadTimeout(c))
    /\ WF_vars(StopListener) /\ WF_vars(StopSessions) /\ WF_vars(StopProxies)

\* the broker of SpecStop with the accept loop, every handler and the
\* caller of Stop kept running, and with every blocked read returning: the
\* first read of a connection runs under the 10 s deadline and every read
\* of the message loop under the deadline armed just before it
FairStop ==
    /\ SpecStop
    /\ \A c \in StopConns :
          /\ WF_vars(AuthReadErr(c)) /\ WF_vars(Evict(c)) /\ WF_vars(Register(c))
          /\ WF_vars(LoopSelect(c)) /\ WF_vars(SessionReadErr(c))
          /\ WF_vars(Dispatch(c)) /\ WF_vars(Cleanup(c))
    /\ WF_vars(AcceptLoopExit)
    /\ WF_vars(StopListener) /\ WF_vars(StopSessions) /\ WF_vars(StopProxies)
    /\ WF_vars(StopWait)

\* the broker of Spec with every task it started kept running: handlers,
\* heartbeat tasks, port accept loops, Forward, and the caller of Stop
FairSpec ==
    /\ Spec
    /\ \A c \in OwnerConns :
          /\ WF_vars(LoopSelect(c)) /\ WF_vars(Dispatch(c)) /\ WF_vars(RegInsert(c))
          /\ WF_vars(Cleanup(c))
          /\ WF_vars(HbTick(c, FALSE)) /\ WF_vars(HbStop(c))
          /\ WF_vars(connClosed[c] /\ SessionReadErr(c))
    /\ \A i \in 1..MaxProxies : WF_vars(ProxyAcceptExit(i))
    /\ \A u \in Users : WF_vars(ForwardEnd(u))
    /\ WF_vars(StopListener) /\ WF_vars(StopSessions) /\ WF_vars(StopProxies)
    /\ WF_vars(StopWait)

\* ------------------------------------------------------------------ claims
\* a session that was authenticated and inserted, whose message loop is
\* running and which has not been closed
Live(c) == pc[c] \in {"select", "read", "dispatch", "regInsert"} /\ ~sessStop[c]

\* C1: at every reachable state at most one authenticated, non-closed
\* session exists for a clientID.
C1_AtMostOneLiveSession ==
    \A c1, c2 \in Conns :
        (c1 # c2 /\ Live(c1) /\ Live(c2)) => ClientID(c1) # ClientID(c2)

\* C2: once S2 has been accepted for the clientID of an Active session S1,
\* S1 is closed and the registry holds an entry for the clientID that is not
\* S1 - never both, never neither.
C2_NeverBothNeverNeither ==
    \A c \in Conns :
        ((pc[c] = "register" /\ oldSession[c] # NoSession) \/ Live(c)) =>
            /\ sessions[ClientID(c)] # NoSession
            /\ sessions[ClientID(c)] # oldSession[c]
            /\ oldSession[c] # NoSession => sessStop[oldSession[c]]

\* C3: the cleanup of a session whose message loop has exited removes a
\* registry entry only if the entry is that very session; the entry of any
\* other session, in particular of its evictor, is left in place.
C3_CleanupOnlyOwnEntry ==
    [][\A c \in Conns :
          (pc[c] = "cleanup" /\ pc'[c] = "done") =>
              \A id \in ClientIDs :
                  sessions[id] # c => sessions'[id] = sessions[id]]_vars

\* an evicted session has finished its cleanup and the registry still holds
\* its evictor
C3_Witness ==
    \E c1, c2 \in Conns :
        /\ c1 # c2
        /\ pc[c1] = "done" /\ hb[c1] # "none" /\ sessStop[c1]
        /\ ClientID(c1) = ClientID(c2)
        /\ Live(c2)
        /\ sessions[ClientID(c1)] = c2

\* C4: when a data channel D presenting the proxyID of a public connection U
\* is handled while U is being served, the broker pairs U with D and keeps D
\* open.
C4_ReadyChannelIsPaired ==
    [][\A d \in Conns, u \in Users :
          ( /\ pc[d] = "auth" /\ pc'[d] # "auth"
            /\ msg'[d].type = TypeProxyReady
            /\ users[u].state = "forwarding"
            /\ msg'[d].pid = users[u].proxyID ) =>
              (users'[u].dataConn = DataChannel(d) /\ ~connClosed'[d])]_vars

\* public connections for which a ProxyConnection exists
Served == { u \in Users : users[u].state = "forwarding" }

\* C5: every accepted public connection gets a proxyID of its own, and no
\* data channel is paired with two public connections.
C5_ProxyIDConsumedOnce ==
    \A u1, u2 \in Served :
        u1 # u2 =>
            /\ users[u1].proxyID # users[u2].proxyID
            /\ users[u1].dataConn.conn = 0 \/ users[u1].dataConn # users[u2].dataConn

\* C6: a public connection accepted by a port listener is either announced
\* with a NewDataChannel frame (tunnel name and proxyID) on a control
\* connection, or closed at once.
C6_NotifyOrClose ==
    [][\A u \in Users :
          (users[u].state = "idle" /\ users'[u].state # "idle") =>
              \/ users'[u].state = "done"
              \/ /\ out'.type = TypeNewProxy
                 /\ out'.conn \in Conns
                 /\ out'.name = proxyObjs[users'[u].proxy].name
                 /\ out'.pid # ""]_vars

\* C7: a DataChannelReady arriving as the first message of a connection is
\* answered by closing that connection; the registry, the proxy table, the
\* port listeners, the public connections and every other control
\* connection stay as they are.  (The broker keeps no pending handshakes, so
\* every proxyID presented to it is unknown.)
C7_StaleReadyRejected ==
    [][\A d \in Conns :
          (pc[d] = "auth" /\ pc'[d] # "auth" /\ msg'[d].type = TypeProxyReady) =>
              /\ connClosed'[d] /\ pc'[d] = "done"
              /\ UNCHANGED <<sessions, proxies, proxyObjs, users, sessStop, hb, silent>>
              /\ \A c \in Conns \ {d} :
                    pc'[c] = pc[c] /\ connClosed'[c] = connClosed[c]]_vars

\* a data channel with a stale proxyID was closed while a session is
\* registered and a public connection is being forwarded
C7_Witness ==
    \E d, c \in Conns, u \in Users :
        /\ pc[d] = "done" /\ connClosed[d]
        /\ msg[d].type = TypeProxyReady /\ msg[d].pid = "stale"
        /\ Live(c) /\ sessions[ClientID(c)] = c
        /\ users[u].state = "forwarding"

\* C8: when the broker waits for a message of an Active session whose agent
\* has stopped sending, and nothing was received for longer than
\* heartbeatTimeout, the session's control connection is eventually closed
\* and the registry eventually does not hold the session.
C8_SilentSessionClosed ==
    \A c \in Conns :
        (pc[c] = "read" /\ silent[c] /\ now - lastActive[c] > HeartbeatTimeout)
            ~> (connClosed[c] /\ \A id \in ClientIDs : sessions[id] # c)

\* the heartbeat task has closed a silent session that is still blocked in
\* its read, with the read deadline not yet passed and no Stop under way
C8_Witness ==
    \E c \in Conns :
        /\ pc[c] = "read" /\ silent[c] /\ now - lastActive[c] > HeartbeatTimeout
        /\ now <= deadline[c] /\ ~stopCh
        /\ hb[c] = "done" /\ sessStop[c] /\ connClosed[c]

\* C9: after Server.Stop has returned neither the control listener nor any
\* port listener is bound.
C9_NoListenerAfterStop ==
    stopPc = "returned" =>
        /\ listener # "open"
        /\ \A i \in 1..Len(proxyObjs) : ~Bound(proxyObjs[i])

\* C10: when Server.Stop returns every task the broker started has finished.
C10_AllTasksFinished ==
    stopPc = "returned" =>
        /\ acceptLoop # "running"
        /\ \A c \in Conns : pc[c] \in {"idle", "done"} /\ hb[c] # "running"
        /\ \A i \in 1..Len(proxyObjs) : proxyObjs[i].acceptLoop # "running"
        /\ \A u \in Users : users[u].state # "forwarding"

\* C11: once a session that registered tunnels has ended, every port
\* listener is eventually stopped and the proxy table eventually holds no
\* tunnel.  (In Spec all tunnels are registered by the one agent.)
C11_ListenersStoppedAtSessionEnd ==
    \A c \in OwnerConns :
        (pc[c] = "done" /\ hb[c] # "none" /\ Len(proxyObjs) > 0)
            ~> ( /\ \A i \in 1..Len(proxyObjs) : ~Bound(proxyObjs[i])
                 /\ \A n \in TunnelNames : proxies[n] = NoProxy )

\* C12: a first message of a kind other than Auth closes the connection
\* without creating a session: the registry is unchanged and no session is
\* closed or evicted.
C12_AuthGate ==
    [][\A c \in Conns :
          ( /\ pc[c] = "auth" /\ pc'[c] # "auth"
            /\ msg'[c] # NoMsg /\ msg'[c].type # TypeAuth ) =>
              /\ connClosed'[c] /\ pc'[c] = "done" /\ hb'[c] = "none"
              /\ UNCHANGED <<sessions, sessStop, hb>>
              /\ \A o \in Conns \ {c} : connClosed'[o] = connClosed[o]]_vars

\* a Ping carrying a well-formed Auth body with the right token was turned
\* away while a session of the same clientID is registered
C12_Witness ==
    \E c, o \in Conns :
        /\ c # o
        /\ pc[c] = "done" /\ connClosed[c] /\ hb[c] = "none"
        /\ msg[c].type = TypePing /\ msg[c].token = Token
        /\ Live(o) /\ ClientID(o) = msg[c].id /\ sessions[msg[c].id] = o

\* C13: an Auth with a token other than the configured one is answered with
\* AuthResult success=false and the connection is closed; the registry is
\* unchanged and no session is closed.
C13_TokenMismatch ==
    [][\A c \in Conns :
          ( /\ pc[c] = "auth" /\ pc'[c] # "auth"
            /\ msg'[c].type = TypeAuth /\ msg'[c].valid /\ msg'[c].token # Token ) =>
              /\ out'.conn = c /\ out'.type = TypeAuthResp /\ ~out'.success
              /\ connClosed'[c] /\ pc'[c] = "done"
              /\ UNCHANGED <<sessions, sessStop, hb>>
              /\ \A o \in Conns \ {c} : connClosed'[o] = connClosed[o]]_vars

\* an Auth with a wrong token for the clientID of a registered session was
\* answered with a failure and closed; the session is still registered
C13_Witness ==
    \E c, o \in Conns :
        /\ c # o
        /\ pc[c] = "done" /\ connClosed[c]
        /\ msg[c].type = TypeAuth /\ msg[c].valid /\ msg[c].token # Token
        /\ out = Frame(c, TypeAuthResp, FALSE, "", 0, "")
        /\ Live(o) /\ ClientID(o) = msg[c].id /\ sessions[msg[c].id] = o

\* C14: whenever the handler closes an authenticating connection because of
\* the message it read (wrong kind, undecodable body, wrong token), it has
\* written an AuthResult with success=false on it first.
C14_FailureAnswered ==
    [][\A c \in Conns :
          (pc[c] = "auth" /\ pc'[c] = "done" /\ msg'[c] # NoMsg) =>
              (out'.conn = c /\ out'.type = TypeAuthResp /\ ~out'.success)]_vars

\* C15: a RegisterTunnel for a port outside a non-empty whitelist is answered
\* with success=false, binds nothing, adds nothing to the proxy table and
\* leaves the session Active; success=true is only sent for a port the
\* whitelist allows.
C15_PortWhitelist ==
    [][/\ \A c \in Conns :
            ( /\ pc[c] = "dispatch" /\ pc'[c] # "dispatch"
              /\ curMsg[c].type = TypeRegisterTunnel /\ curMsg[c].valid
              /\ portSet # {} /\ curMsg[c].port \notin portSet ) =>
                /\ WriteFails(c) \/
                     (out'.conn = c /\ out'.type = TypeRegisterTunnelResp /\ ~out'.success)
                /\ UNCHANGED <<proxyObjs, proxies, sessions, sessStop, connClosed>>
                /\ pc'[c] = "select"
       /\ (out'.type = TypeRegisterTunnelResp /\ out'.success) =>
            (portSet = {} \/ out'.port \in portSet)]_vars

\* the session was refused a port outside the whitelist after it had
\* registered a tunnel on the allowed port, and is still Active
C15_Witness ==
    \E c \in Conns, i \in 1..MaxProxies :
        /\ Live(c) /\ pc[c] = "select" /\ sessions[ClientID(c)] = c
        /\ portSet = {8080}
        /\ out = RegResp(c, FALSE, "port not allowed", 0)
        /\ i <= Len(proxyObjs) /\ Bound(proxyObjs[i])
        /\ proxyObjs[i].remotePort = 8080 /\ proxies[proxyObjs[i].name] = i

\* C16: a RegisterTunnel for an allowed port that a running port listener
\* already holds is answered with success=false, creates no Proxy, leaves
\* the proxy table and the holder of the port as they are and the session
\* Active; success=true is only sent for a port on which this request bound
\* a listener that the proxy table now holds; no two running listeners
\* share a port.
C16_BindFailure ==
    [][/\ \A c \in Conns :
            ( /\ pc[c] = "dispatch" /\ pc'[c] # "dispatch"
              /\ curMsg[c].type = TypeRegisterTunnel /\ curMsg[c].valid
              /\ (portSet = {} \/ curMsg[c].port \in portSet)
              /\ \E i \in 1..Len(proxyObjs) :
                    Bound(proxyObjs[i]) /\ proxyObjs[i].remotePort = curMsg[c].port ) =>
                /\ WriteFails(c) \/
                     (out'.conn = c /\ out'.type = TypeRegisterTunnelResp /\ ~out'.success)
                /\ UNCHANGED <<proxyObjs, proxies, sessions, sessStop, connClosed>>
                /\ pc'[c] = "select"
       /\ (out'.type = TypeRegisterTunnelResp /\ out'.success) =>
            \E i \in 1..Len(proxyObjs') :
                /\ proxyObjs'[i].remotePort = out'.port
                /\ proxies'[proxyObjs'[i].name] = i
                /\ proxies[proxyObjs'[i].name] # i
       /\ \A i, j \in 1..Len(proxyObjs') :
            (i # j /\ Bound(proxyObjs'[i]) /\ Bound(proxyObjs'[j])) =>
                proxyObjs'[i].remotePort # proxyObjs'[j].remotePort]_vars

\* a registration failed to bind a port that an earlier tunnel holds; the
\* earlier tunnel is still running and registered, the session still Active
C16_Witness ==
    \E c \in Conns :
        /\ Live(c) /\ pc[c] = "select" /\ sessions[ClientID(c)] = c
        /\ out = RegResp(c, FALSE, "start failed", 0)
        /\ Len(proxyObjs) = 1 /\ Bound(proxyObjs[1])
        /\ proxies[proxyObjs[1].name] = 1
        /\ proxyObjs[1].acceptLoop = "running"

\* C17: once one of the two copies of a forwarding pair has returned, the
\* pair eventually ends and both its sockets are closed.
C17_PairEndsAfterOneSide ==
    \A u \in Users :
        (users[u].state = "forwarding" /\ (~users[u].l2r \/ ~users[u].r2l))
            ~> (users[u].state = "done")

\* the order of the steps of handleNewProxy
ReadyOrder == <<"found", "local", "server", "ready">>

\* C18: the agent forwards for a notification only after it found the
\* tunnel, dialled the private target, opened a connection to the broker and
\* wrote a ProxyReady with the notification's proxyID, in this order; for an
\* unknown tunnel it opens no connection; when the task has ended, whether
\* by a failed step or after forwarding, no socket it opened is left open.
C18_ReadyBeforeForwarding ==
    \A n \in Users :
        /\ agent[n].steps = SubSeq(ReadyOrder, 1, Len(agent[n].steps))
        /\ (agent[n].l2r \/ agent[n].r2l \/ agent[n].pc = "forwarding") =>
              /\ agent[n].steps = ReadyOrder
              /\ agent[n].tunnel \in TunnelCache
              /\ agent[n].ready = agent[n].proxyID
              /\ agent[n].local = "open" /\ agent[n].server = "open"
        /\ agent[n].tunnel \notin TunnelCache =>
              (agent[n].local = "none" /\ agent[n].server = "none")
        /\ agent[n].pc = "done" =>
              /\ agent[n].local # "open" /\ agent[n].server # "open"
              /\ ~agent[n].l2r /\ ~agent[n].r2l
        /\ agent[n].steps # ReadyOrder => agent[n].ready = ""

\* one task forwards after the full handshake, another task was turned away
\* for an unknown tunnel, or failed after opening a socket and closed it
C18_Witness ==
    \E n, k \in Users :
        /\ n # k
        /\ agent[n].pc = "forwarding" /\ agent[n].ready = agent[n].proxyID
        /\ agent[k].pc = "done"
        /\ \/ agent[k].tunnel \notin TunnelCache
           \/ agent[k].local = "closed" /\ agent[k].steps # ReadyOrder

\* the frames written and not yet read
Pending == SubSeq(sent, Len(rcvd) + 1, Len(sent))

RECURSIVE FramedLen(_)
FramedLen(ms) ==
    IF ms = <<>> THEN 0 ELSE HeaderLen + ByteLen(Head(ms).Data) + FramedLen(Tail(ms))

\* C20: the messages decoded from a stream are the messages encoded onto it,
\* kind and body, in the same order; every frame takes the 5 header bytes
\* plus its body on the stream, and decoding consumes exactly that.
C20_FrameRoundTrip ==
    /\ Len(rcvd) <= Len(sent)
    /\ rcvd = SubSeq(sent, 1, Len(rcvd))
    /\ ByteLen(wire) = FramedLen(Pending)

\* an empty message and a message with a body of MaxDataLen bytes went
\* through the stream one after the other
C20_Witness ==
    /\ Len(rcvd) = 2 /\ wire = <<>>
    /\ rcvd[1].Data = <<>>
    /\ ByteLen(rcvd[2].Data) = MaxDataLen

\* C19: a message of a kind that is not expected on an Active session closes
\* the session's control connection.
C19_UnexpectedKindCloses ==
    [][\A c \in Conns :
          ( /\ pc[c] = "dispatch" /\ pc'[c] # "dispatch"
            /\ curMsg[c].type \notin {TypePing, TypePong, TypeRegisterTunnel} ) =>
              connClosed'[c]]_vars

\* C21: WriteTo of a message whose body is longer than MaxDataLen returns
\* ErrMsgTooLarge with a byte count of 0 and puts nothing on the stream; a
\* body of at most MaxDataLen bytes is written, header and body.
C21_OversizeBodyRefused ==
    [][\A m \in Messages :
          WriteTo(m) =>
             IF ByteLen(m.Data) > MaxDataLen
               THEN /\ call'.err = "ErrMsgTooLarge" /\ call'.n = 0
                    /\ wire' = wire /\ sent' = sent
               ELSE /\ call'.err = ""
                    /\ ByteLen(wire') = ByteLen(wire) + HeaderLen + ByteLen(m.Data)]_vars

\* a frame is on the stream and the write after it was refused
C21_Witness ==
    /\ call = Call("WriteTo", "ErrMsgTooLarge", 0)
    /\ Len(sent) = 1 /\ rcvd = <<>>
    /\ ByteLen(wire) = HeaderLen + ByteLen(sent[1].Data)

\* the length a header declares is over MaxDataLen (65536 = 00 01 00 00)
DeclaresTooLarge(s) ==
    \/ ByteAt(s, 2) > 0
    \/ ByteAt(s, 3) > 1
    \/ ByteAt(s, 3) = 1 /\ (ByteAt(s, 4) > 0 \/ ByteAt(s, 5) > 0)

\* C22: ReadFrom on a header that declares more than MaxDataLen bytes returns
\* ErrMsgTooLarge having consumed the 5 header bytes and nothing else; on a
\* stream that ends before the header or the declared body is complete it
\* returns an error; in neither case is a message delivered.
C22_DecodeRefusals ==
    [][ReadFrom =>
          IF ByteLen(wire) < HeaderLen
            THEN call'.err \in {"EOF", "ErrUnexpectedEOF"} /\ rcvd' = rcvd
            ELSE IF DeclaresTooLarge(wire)
            THEN /\ call'.err = "ErrMsgTooLarge" /\ call'.n = HeaderLen
                 /\ wire' = Drop(wire, HeaderLen)
                 /\ rcvd' = rcvd
            ELSE IF ByteLen(wire) - HeaderLen < IntOf(Uint32(Drop(Take(wire, HeaderLen), 1)))
            THEN call'.err \in {"EOF", "ErrUnexpectedEOF"} /\ rcvd' = rcvd
            ELSE call'.err = "" /\ Len(rcvd') = Len(rcvd) + 1]_vars

\* a header declaring 2^32-1 bytes was refused and the 7 bytes behind it
\* are still on the stream
C22_Witness ==
    /\ call = Call("ReadFrom", "ErrMsgTooLarge", HeaderLen)
    /\ wire = <<Run(7, 9)>>
    /\ rcvd = <<>>

RECURSIVE EncodeAll(_)
EncodeAll(ms) ==
    IF ms = <<>> THEN <<>>
    ELSE Cat(Cat(Header(Head(ms)), Head(ms).Data), EncodeAll(Tail(ms)))

\* tasks inside WriteTo
Writing == { t \in Tasks : cx.pc[t] \in {"header", "body"} }

\* C23: with tasks writing concurrently, the bytes on the transport are the
\* whole frames of the written messages one after the other, the last one
\* short of its body only while its writer is between its two writes; every
\* WriteMessage call that returned nil put exactly one frame there; and
\* ReadMessage can take its lock and return a complete frame whether or not
\* a writer holds writeMu.
C23_WholeFramesOnce ==
    /\ Cardinality(Writing) <= 1
    /\ rcvd = SubSeq(sent, 1, Len(rcvd))
    /\ wire = IF \E t \in Tasks : cx.pc[t] = "body"
               THEN Cat(EncodeAll(SubSeq(Pending, 1, Len(Pending) - 1)),
                        Header(Pending[Len(Pending)]))
               ELSE EncodeAll(Pending)
    /\ Len(sent) = Len(cx.order) + Cardinality({ t \in Tasks : cx.pc[t] = "body" })
    /\ cx.rpc = "idle" => ENABLED ReadLock
    /\ (cx.rpc = "reading" /\ Len(Pending) > 1) => ENABLED ReadMessage

\* a message was read while a writer was between the header and the body
\* of the next one
C23_Witness ==
    /\ cx.overlap /\ Len(rcvd) = 1
    /\ \E t \in Tasks : cx.pc[t] = "body"
    /\ wire = Header(sent[2])

\* C24: however many tasks call Connect.Close, net.Conn.Close runs at most
\* once, and has run once when any call has returned; only one call ever
\* returns the result of net.Conn.Close, the others return nil; IsClosed
\* (Connect.closed) is false until a call has passed the test and true after.
C24_CloseIdempotent ==
    /\ cx.transport <= 1
    /\ cx.returned => cx.closed /\ cx.transport = 1
    /\ ~cx.closed => cx.transport = 0 /\ ~cx.returned
    /\ cx.closed => cx.transport = 1 \/ \E t \in Tasks : cx.pc[t] = "conn.Close"
    /\ Cardinality({ t \in Tasks : cx.ret[t] = "conn.Close" }) <= 1

\* one Connect.Close closed the transport and a later one returned nil,
\* neither through the session
C24_Witness ==
    /\ cx.stopCh = 0 /\ cx.transport = 1
    /\ \E t, u \in Tasks : cx.ret[t] = "conn.Close" /\ cx.ret[u] = "nil"

\* C30: however many tasks call ClientSession.Close, and whatever tasks
\* close the Connect directly meanwhile, close(cs.stopCh) runs at most once
\* and net.Conn.Close at most once; when a ClientSession.Close has returned
\* both have run, so IsClosed is true from then on.
C30_SessionCloseOnce ==
    /\ cx.stopCh <= 1
    /\ cx.transport <= 1
    /\ cx.sReturned => cx.stopCh = 1 /\ cx.closed /\ cx.transport = 1
    /\ (\E t \in Tasks : cx.inSession[t]) => cx.mu
    /\ Cardinality({ t \in Tasks : cx.inSession[t] }) <= 1

\* a ClientSession.Close has returned and a second one holds cs.mu in front
\* of the closed stop channel
C30_Witness ==
    /\ cx.sReturned /\ cx.stopCh = 1 /\ cx.transport = 1
    /\ \E t \in Tasks : cx.pc[t] = "select"

\* session c is past authentication and its handler either waits in
\* ReadMessage or is at work in the same instant as the session's last
\* activity (the steps of the handler itself take no time on this clock)
InLoop(c) ==
    \/ pc[c] = "read"
    \/ pc[c] \in {"select", "dispatch"} /\ now = lastActive[c]

ClientState(cl) ==
    <<cl.running, cl.stopCh, cl.conn, cl.conns, cl.procStops, cl.messageLoop,
      cl.heartbeatLoop, cl.caches, cl.panicked>>

\* C26: a Start on a running Client returns an error and leaves the running
\* flag, the control connection, the loops, the tunnel cache and the stop
\* channel as they were.
C26_DoubleStartRejected ==
    [][(client.running /\ StartCall) =>
          /\ client'.err /\ client'.last = "Start" /\ client'.pc = "idle"
          /\ ClientState(client') = ClientState(client)]_vars

\* a Client runs with its connection and both loops, and the last call, a
\* Start, returned an error
C26_Witness ==
    /\ client.running /\ client.conn = "open"
    /\ client.messageLoop /\ client.heartbeatLoop
    /\ client.last = "Start" /\ client.err
    /\ client.caches = 1 /\ client.conns = 1

\* C27: in no sequence of Start and Stop calls does a Stop panic, close
\* c.stopCh a second time or close the batch processor's channel a second
\* time.
C27_StopIdempotent ==
    /\ ~client.panicked
    /\ client.stopCh <= 1
    /\ client.procStops <= 1

\* C28: once Server.Stop has been called it returns.
C28_StopReturns == (stopPc # "idle") ~> (stopPc = "returned")

\* Stop has returned after it closed one session in its sweep while the
\* handler of another session left through s.stopCh
C28_Witness ==
    /\ stopPc = "returned"
    /\ \E c, d \in Conns :
          /\ pc[c] = "done" /\ sessStop[c]
          /\ pc[d] = "done" /\ hb[d] # "none" /\ ~sessStop[d]

\* C29: when Server.Stop has returned, every connection the broker accepted
\* is closed.
C29_AllConnsClosedAfterStop ==
    stopPc = "returned" => \A c \in Conns : pc[c] # "idle" => connClosed[c]

\* C31: a message of any kind read on a session sets lastActive to the time
\* of the read before it is dispatched, and lastActive changes at no other
\* step than that read and the creation of the session.
C31_LastActiveOnReceive ==
    [][\A c \in Conns :
          /\ (pc[c] = "read" /\ pc'[c] = "dispatch") => lastActive'[c] = now
          /\ lastActive'[c] # lastActive[c] =>
                \/ pc[c] = "read" /\ pc'[c] = "dispatch"
                \/ pc[c] = "register" /\ pc'[c] = "select"]_vars

\* a frame of an unknown kind was read later than the session was created
\* and is about to be dispatched
C31_Witness ==
    \E c \in Conns :
        /\ pc[c] = "dispatch" /\ curMsg[c].type = 255
        /\ lastActive[c] = now /\ now > 0

C33_LocksGranted ==
    \A t \in Tasks : (cx.locks[t] # <<>>) ~> (cx.locks[t] = <<>>)

\* one task holds the registry lock and waits for the session's lock, which
\* another task holds while it waits for the connection's close lock
C33_Witness ==
    \E t, u \in Tasks :
        /\ cx.sessionsMu /\ cx.mu
        /\ cx.locks[t] # <<>> /\ Head(cx.locks[t]) = Lock("mu")
        /\ cx.locks[u] # <<>> /\ Head(cx.locks[u]) = Lock("closedMu")

\* C34: the workers start handleSingleMessage on the messages in the order
\* in which messageLoop read them.
C34_HandledInArrivalOrder ==
    \A i, j \in 1..Len(processor.handled) :
        i < j => processor.handled[i] < processor.handled[j]

\* C38: after every sequence of Push, PopBatch and Close the ring queue and
\* the list queue hold the same messages in the same order, are both open
\* or both closed, and returned the same value from the last PopBatch: nil,
\* or the 1 to batchSize oldest messages in the order they were pushed.
C38_RingEqualsList ==
    /\ RingContents(processor.queue) = processor.list.queue
    /\ processor.queue.closed = processor.list.closed
    /\ processor.ret = processor.lret
    /\ ~processor.ret.nil =>
          /\ Len(processor.ret.batch) \in 1..processor.queue.batchSize
          /\ \A i \in 2..Len(processor.ret.batch) :
                processor.ret.batch[i] = processor.ret.batch[i - 1] + 1
          /\ \A i \in 1..processor.queue.size :
                RingContents(processor.queue)[i]
                    = processor.ret.batch[Len(processor.ret.batch)] + i

\* a batch was popped from the full ring, the ring was filled again and then
\* expanded while it was wrapped
C38_Witness ==
    /\ processor.queue.capacity = 2 * MinCapacity
    /\ ~processor.ret.nil
    /\ processor.queue.head = 0
    /\ processor.queue.size > MinCapacity
    /\ processor.queue.messages[0] > 1

\* C39: while Stop has not been called, every message pushed to a started
\* BatchProcessor is handed to the handler, and no message is handed to it
\* twice.
C39_HandledExactlyOnce ==
    /\ [](\A i, j \in 1..Len(processor.handled) :
              i # j => processor.handled[i] # processor.handled[j])
    /\ \A m \in 1..MaxFrames :
          (processor.pushed >= m)
              ~> (processor.stopCh \/ \E i \in 1..Len(processor.handled) :
                                         processor.handled[i] = m)

\* a message was pushed while both workers waited, and all were handled
C39_Witness ==
    /\ ~processor.stopCh
    /\ processor.pushed = MaxFrames
    /\ Len(processor.handled) = MaxFrames
    /\ \A w \in Workers : processor.worker[w].pc = "wait"

\* C35: the period of the agent's heartbeat ticker is the configured
\* interval when that is positive and 30 s otherwise, and computing it does
\* not overflow an int64.
C35_TickerPeriod ==
    heartbeat.pc = "ticking" =>
        /\ heartbeat.ticker = IF Positive(heartbeat.configured)
                               THEN heartbeat.configured ELSE DefaultInterval
        /\ ~heartbeat.overflow

\* C36: when Start returns the error of connect, authenticate or
\* registerTunnels, the Client is not running, its control connection is
\* not open and neither loop runs.
C36_FailedStartNotRunning ==
    [][(Connect(FALSE) \/ Authenticate(FALSE) \/ RegisterTunnels(FALSE)) =>
          /\ client'.pc = "idle" /\ client'.last = "Start" /\ client'.err
          /\ ~client'.running
          /\ client'.conn # "open"
          /\ ~client'.messageLoop /\ ~client'.heartbeatLoop]_vars

\* C37: the deadline armed through SetReadDeadLine bounds reads only: a Ping
\* that heartbeatLoop writes on an open connection of a session that has
\* not timed out, to an agent that accepts it, is written.
C37_ReadDeadlineOnly ==
    [][\A c \in TimedConns :
          (HbTick(c, FALSE) /\ ~connClosed[c] /\ ~HbExpired(c)) =>
              (out' = Plain(c, TypePing) /\ ~connClosed'[c])]_vars

\* C40: in a ConnectionPool the count of active connections stays between
\* zero and MaxActive and the number of idle connections stays at most
\* MaxIdle.
C40_PoolBounds ==
    pool.config.MaxActive > 0 =>
        /\ pool.numActive >= 0
        /\ pool.numActive <= pool.config.MaxActive
        /\ pool.conns <= pool.config.MaxIdle
====
